---- MODULE Spec2Model ----
(***************************************************************************)
(* One run of the orchestrator workflow (graph/workflow.py) over the       *)
(* reducer-merged OrchestratorState (graph/state.py), with the node        *)
(* functions of graph/nodes.py and the two-stage intent analysis of        *)
(* orchestrator/intent.  External text-completion providers are inputs:    *)
(* every outcome they can hand back (content, score, unparsable text, an   *)
(* exception) is a nondeterministic choice of the action that calls them.  *)
(* Confidences are percentages (0.95 is 95).                               *)
(***************************************************************************)
EXTENDS Integers, Sequences, FiniteSets, TLC

\* ---------------------------------------------------------------- bounds
\* max_iterations of a request ranges over 1..MaxN
MaxN == 3
\* node executions explored per run (the graph itself sets no limit); a run
\* whose Writer never raises takes at most 2 * max_iterations + 4 of them
MaxSteps == 11

\* ------------------------------------------------------------- constants
\* should_revise: state.get("max_iterations", 3) or 3
DefaultMaxIterations == 3
\* select_strategy_node: confidence > 0.9
ClusterConfidence == 90
\* critique_content: threshold = 7
Threshold == 7
\* critique_content: result.get("score", 5), and score=7 when unparsable
DefaultScore == 5
UnparsableScore == 7

\* Python None for a str-valued field, and for a dict-valued field
None == "None"
NoneDict == [k \in {"None"} |-> "None"]
EmptyDict == [k \in {} |-> ""]
Get(d, k, default) == IF k \in DOMAIN d THEN d[k] ELSE default
Put(d, k, v) == [x \in (DOMAIN d) \cup {k} |-> IF x = k THEN v ELSE d[x]]
\* Python None for a list of dicts
NoneList == <<NoneDict>>
\* `d or {}`
OrEmpty(d) == IF d = NoneDict THEN EmptyDict ELSE d

\* -------------------------------------------------------------- reducers
\* add_messages that keeps the new messages only
add_messages_overwrite(existing, new) ==
  IF new = NoneList THEN <<>> ELSE new

add_messages(existing, new) ==
  (IF existing = NoneList THEN <<>> ELSE existing)
    \o (IF new = NoneList THEN <<>> ELSE new)

\* add_actions that appends the new actions twice
add_actions_twice(existing, new) ==
  (IF existing = NoneList THEN <<>> ELSE existing)
    \o (IF new = NoneList THEN <<>> ELSE new)
    \o (IF new = NoneList THEN <<>> ELSE new)

add_actions(existing, new) ==
  (IF existing = NoneList THEN <<>> ELSE existing)
    \o (IF new = NoneList THEN <<>> ELSE new)

\* merge_results in which, on a key of both, the existing value stays
merge_results_keep_existing(existing, new) ==
  LET e == OrEmpty(existing)
      n == OrEmpty(new)
  IN  [k \in (DOMAIN e) \cup (DOMAIN n) |-> IF k \in DOMAIN e THEN e[k] ELSE n[k]]

merge_results(existing, new) ==
  LET e == OrEmpty(existing)
      n == OrEmpty(new)
  IN  [k \in (DOMAIN e) \cup (DOMAIN n) |-> IF k \in DOMAIN n THEN n[k] ELSE e[k]]

\* OrchestratorState: the Annotated fields use their reducer, the others are
\* overwritten; a key the delta does not carry is left alone.
Reduce(field, old, new) ==
  CASE field = "messages" -> add_messages(old, new)
    [] field = "actions"  -> add_actions(old, new)
    [] field = "results"  -> merge_results(old, new)
    [] OTHER              -> new

ApplyDelta(s, delta) ==
  [f \in DOMAIN s |-> IF f \in DOMAIN delta THEN Reduce(f, s[f], delta[f]) ELSE s[f]]

Msg(role, type, content, n) ==
  [role |-> role, type |-> type, content |-> content, n |-> n]

\* ----------------------------------------------------- pattern classifier
\* A message is the set of pattern groups its text matches.
Groups ==
  {"navigate", "write", "rewriteCoherence", "improve", "delete", "answer",
   "openAndWrite", "structure", "modifyStructure", "complex"}

\* IntentAnalysis: suggestedAction is the sequence of the pieces its text is
\* put together from (an f-string's literal text and its interpolated values)
Analysis(intent, confidence, usedLLM, suggestedAction) ==
  [intent |-> intent, confidence |-> confidence, usedLLM |-> usedLLM,
   suggestedAction |-> suggestedAction,
   needsClarification |-> FALSE, clarifyingQuestion |-> None]

\* the result when no tier matches (Python None: the analysis is a pydantic
\* model, so the sentinel is dict-valued)
NoMatch == NoneDict

\* classify_with_patterns with the delete tier ahead of the segment tiers
classify_with_patterns_delete_first(message, context) ==
  LET has_active_segment == context.activeSegment # NoneDict
      document_panel_open == context.documentPanelOpen
      segment_name == Get(context.activeSegment, "name", "selected section")
  IN
  IF document_panel_open /\ "navigate" \in message
    THEN Analysis("navigate_section", 95, FALSE,
                  <<"Find and select the requested section">>)
  ELSE IF "delete" \in message
    THEN Analysis("delete_node", 90, FALSE, <<"Identify which node to delete">>)
  ELSE IF has_active_segment /\ "write" \in message
    THEN Analysis("write_content", 95, FALSE,
                  <<"Generate content for the selected section: ", segment_name>>)
  ELSE IF has_active_segment /\ "rewriteCoherence" \in message
    THEN Analysis("rewrite_with_coherence", 95, FALSE,
                  <<"Analyze dependencies, write/rewrite sections">>)
  ELSE IF has_active_segment /\ "improve" \in message
    THEN Analysis("improve_content", 90, FALSE,
                  <<"Refine and enhance the content in: ", segment_name>>)
  ELSE IF "answer" \in message
    THEN Analysis("answer_question", 90, FALSE, <<"Answer the user's question">>)
  ELSE IF ~document_panel_open /\ ~has_active_segment
          /\ context.canvasContext \notin {NoneDict, EmptyDict}
          /\ "openAndWrite" \in message
    THEN Analysis("open_and_write", 95, FALSE, <<"Open the referenced document">>)
  ELSE IF ~document_panel_open /\ ~has_active_segment /\ "structure" \in message
    THEN Analysis("create_structure", 90, FALSE,
                  <<"Generate a complete story structure">>)
  ELSE IF "modifyStructure" \in message
    THEN Analysis("modify_structure", 85, FALSE, <<"Update the story structure">>)
  ELSE IF "complex" \in message
    THEN NoMatch
  ELSE NoMatch

\* classify_with_patterns with the structure tier ahead of the answer tier
classify_with_patterns_structure_first(message, context) ==
  LET has_active_segment == context.activeSegment # NoneDict
      document_panel_open == context.documentPanelOpen
      segment_name == Get(context.activeSegment, "name", "selected section")
  IN
  IF document_panel_open /\ "navigate" \in message
    THEN Analysis("navigate_section", 95, FALSE,
                  <<"Find and select the requested section">>)
  ELSE IF has_active_segment /\ "write" \in message
    THEN Analysis("write_content", 95, FALSE,
                  <<"Generate content for the selected section: ", segment_name>>)
  ELSE IF has_active_segment /\ "rewriteCoherence" \in message
    THEN Analysis("rewrite_with_coherence", 95, FALSE,
                  <<"Analyze dependencies, write/rewrite sections">>)
  ELSE IF has_active_segment /\ "improve" \in message
    THEN Analysis("improve_content", 90, FALSE,
                  <<"Refine and enhance the content in: ", segment_name>>)
  ELSE IF "delete" \in message
    THEN Analysis("delete_node", 90, FALSE, <<"Identify which node to delete">>)
  ELSE IF ~document_panel_open /\ ~has_active_segment /\ "structure" \in message
    THEN Analysis("create_structure", 90, FALSE,
                  <<"Generate a complete story structure">>)
  ELSE IF "answer" \in message
    THEN Analysis("answer_question", 90, FALSE, <<"Answer the user's question">>)
  ELSE IF ~document_panel_open /\ ~has_active_segment
          /\ context.canvasContext \notin {NoneDict, EmptyDict}
          /\ "openAndWrite" \in message
    THEN Analysis("open_and_write", 95, FALSE, <<"Open the referenced document">>)
  ELSE IF "modifyStructure" \in message
    THEN Analysis("modify_structure", 85, FALSE, <<"Update the story structure">>)
  ELSE IF "complex" \in message
    THEN NoMatch
  ELSE NoMatch

\* classify_with_patterns with `if context.activeSegment:` for
\* `context.activeSegment is not None`
classify_with_patterns_truthy_segment(message, context) ==
  LET has_active_segment == context.activeSegment \notin {NoneDict, EmptyDict}
      document_panel_open == context.documentPanelOpen
      segment_name == Get(context.activeSegment, "name", "selected section")
  IN
  IF document_panel_open /\ "navigate" \in message
    THEN Analysis("navigate_section", 95, FALSE,
                  <<"Find and select the requested section">>)
  ELSE IF has_active_segment /\ "write" \in message
    THEN Analysis("write_content", 95, FALSE,
                  <<"Generate content for the selected section: ", segment_name>>)
  ELSE IF has_active_segment /\ "rewriteCoherence" \in message
    THEN Analysis("rewrite_with_coherence", 95, FALSE,
                  <<"Analyze dependencies, write/rewrite sections">>)
  ELSE IF has_active_segment /\ "improve" \in message
    THEN Analysis("improve_content", 90, FALSE,
                  <<"Refine and enhance the content in: ", segment_name>>)
  ELSE IF "delete" \in message
    THEN Analysis("delete_node", 90, FALSE, <<"Identify which node to delete">>)
  ELSE IF "answer" \in message
    THEN Analysis("answer_question", 90, FALSE, <<"Answer the user's question">>)
  ELSE IF ~document_panel_open /\ ~has_active_segment
          /\ context.canvasContext \notin {NoneDict, EmptyDict}
          /\ "openAndWrite" \in message
    THEN Analysis("open_and_write", 95, FALSE, <<"Open the referenced document">>)
  ELSE IF ~document_panel_open /\ ~has_active_segment /\ "structure" \in message
    THEN Analysis("create_structure", 90, FALSE,
                  <<"Generate a complete story structure">>)
  ELSE IF "modifyStructure" \in message
    THEN Analysis("modify_structure", 85, FALSE, <<"Update the story structure">>)
  ELSE IF "complex" \in message
    THEN NoMatch
  ELSE NoMatch

\* classify_with_patterns whose improve tier does not ask for a segment
classify_with_patterns_ungated_improve(message, context) ==
  LET has_active_segment == context.activeSegment # NoneDict
      document_panel_open == context.documentPanelOpen
      segment_name == Get(context.activeSegment, "name", "selected section")
  IN
  IF document_panel_open /\ "navigate" \in message
    THEN Analysis("navigate_section", 95, FALSE,
                  <<"Find and select the requested section">>)
  ELSE IF has_active_segment /\ "write" \in message
    THEN Analysis("write_content", 95, FALSE,
                  <<"Generate content for the selected section: ", segment_name>>)
  ELSE IF has_active_segment /\ "rewriteCoherence" \in message
    THEN Analysis("rewrite_with_coherence", 95, FALSE,
                  <<"Analyze dependencies, write/rewrite sections">>)
  ELSE IF "improve" \in message
    THEN Analysis("improve_content", 90, FALSE,
                  <<"Refine and enhance the content in: ", segment_name>>)
  ELSE IF "delete" \in message
    THEN Analysis("delete_node", 90, FALSE, <<"Identify which node to delete">>)
  ELSE IF "answer" \in message
    THEN Analysis("answer_question", 90, FALSE, <<"Answer the user's question">>)
  ELSE IF ~document_panel_open /\ ~has_active_segment
          /\ context.canvasContext \notin {NoneDict, EmptyDict}
          /\ "openAndWrite" \in message
    THEN Analysis("open_and_write", 95, FALSE, <<"Open the referenced document">>)
  ELSE IF ~document_panel_open /\ ~has_active_segment /\ "structure" \in message
    THEN Analysis("create_structure", 90, FALSE,
                  <<"Generate a complete story structure">>)
  ELSE IF "modifyStructure" \in message
    THEN Analysis("modify_structure", 85, FALSE, <<"Update the story structure">>)
  ELSE IF "complex" \in message
    THEN NoMatch
  ELSE NoMatch

\* classify_with_patterns whose navigation tier does not ask for the open panel
classify_with_patterns_navigate_anywhere(message, context) ==
  LET has_active_segment == context.activeSegment # NoneDict
      document_panel_open == context.documentPanelOpen
      segment_name == Get(context.activeSegment, "name", "selected section")
  IN
  IF "navigate" \in message
    THEN Analysis("navigate_section", 95, FALSE,
                  <<"Find and select the requested section">>)
  ELSE IF has_active_segment /\ "write" \in message
    THEN Analysis("write_content", 95, FALSE,
                  <<"Generate content for the selected section: ", segment_name>>)
  ELSE IF has_active_segment /\ "rewriteCoherence" \in message
    THEN Analysis("rewrite_with_coherence", 95, FALSE,
                  <<"Analyze dependencies, write/rewrite sections">>)
  ELSE IF has_active_segment /\ "improve" \in message
    THEN Analysis("improve_content", 90, FALSE,
                  <<"Refine and enhance the content in: ", segment_name>>)
  ELSE IF "delete" \in message
    THEN Analysis("delete_node", 90, FALSE, <<"Identify which node to delete">>)
  ELSE IF "answer" \in message
    THEN Analysis("answer_question", 90, FALSE, <<"Answer the user's question">>)
  ELSE IF ~document_panel_open /\ ~has_active_segment
          /\ context.canvasContext \notin {NoneDict, EmptyDict}
          /\ "openAndWrite" \in message
    THEN Analysis("open_and_write", 95, FALSE, <<"Open the referenced document">>)
  ELSE IF ~document_panel_open /\ ~has_active_segment /\ "structure" \in message
    THEN Analysis("create_structure", 90, FALSE,
                  <<"Generate a complete story structure">>)
  ELSE IF "modifyStructure" \in message
    THEN Analysis("modify_structure", 85, FALSE, <<"Update the story structure">>)
  ELSE IF "complex" \in message
    THEN NoMatch
  ELSE NoMatch

\* classify_with_patterns that gives up on a complex-pattern match first
classify_with_patterns_complex_first(message, context) ==
  LET has_active_segment == context.activeSegment # NoneDict
      document_panel_open == context.documentPanelOpen
      segment_name == Get(context.activeSegment, "name", "selected section")
  IN
  IF "complex" \in message
    THEN NoMatch
  ELSE IF document_panel_open /\ "navigate" \in message
    THEN Analysis("navigate_section", 95, FALSE,
                  <<"Find and select the requested section">>)
  ELSE IF has_active_segment /\ "write" \in message
    THEN Analysis("write_content", 95, FALSE,
                  <<"Generate content for the selected section: ", segment_name>>)
  ELSE IF has_active_segment /\ "rewriteCoherence" \in message
    THEN Analysis("rewrite_with_coherence", 95, FALSE,
                  <<"Analyze dependencies, write/rewrite sections">>)
  ELSE IF has_active_segment /\ "improve" \in message
    THEN Analysis("improve_content", 90, FALSE,
                  <<"Refine and enhance the content in: ", segment_name>>)
  ELSE IF "delete" \in message
    THEN Analysis("delete_node", 90, FALSE, <<"Identify which node to delete">>)
  ELSE IF "answer" \in message
    THEN Analysis("answer_question", 90, FALSE, <<"Answer the user's question">>)
  ELSE IF ~document_panel_open /\ ~has_active_segment
          /\ context.canvasContext \notin {NoneDict, EmptyDict}
          /\ "openAndWrite" \in message
    THEN Analysis("open_and_write", 95, FALSE, <<"Open the referenced document">>)
  ELSE IF ~document_panel_open /\ ~has_active_segment /\ "structure" \in message
    THEN Analysis("create_structure", 90, FALSE,
                  <<"Generate a complete story structure">>)
  ELSE IF "modifyStructure" \in message
    THEN Analysis("modify_structure", 85, FALSE, <<"Update the story structure">>)
  ELSE IF "complex" \in message
    THEN NoMatch
  ELSE NoMatch

classify_with_patterns(message, context) ==
  LET has_active_segment == context.activeSegment # NoneDict
      document_panel_open == context.documentPanelOpen
      segment_name == Get(context.activeSegment, "name", "selected section")
  IN
  IF document_panel_open /\ "navigate" \in message
    THEN Analysis("navigate_section", 95, FALSE,
                  <<"Find and select the requested section">>)
  ELSE IF has_active_segment /\ "write" \in message
    THEN Analysis("write_content", 95, FALSE,
                  <<"Generate content for the selected section: ", segment_name>>)
  ELSE IF has_active_segment /\ "rewriteCoherence" \in message
    THEN Analysis("rewrite_with_coherence", 95, FALSE,
                  <<"Analyze dependencies, write/rewrite sections">>)
  ELSE IF has_active_segment /\ "improve" \in message
    THEN Analysis("improve_content", 90, FALSE,
                  <<"Refine and enhance the content in: ", segment_name>>)
  ELSE IF "delete" \in message
    THEN Analysis("delete_node", 90, FALSE, <<"Identify which node to delete">>)
  ELSE IF "answer" \in message
    THEN Analysis("answer_question", 90, FALSE, <<"Answer the user's question">>)
  ELSE IF ~document_panel_open /\ ~has_active_segment
          /\ context.canvasContext \notin {NoneDict, EmptyDict}
          /\ "openAndWrite" \in message
    THEN Analysis("open_and_write", 95, FALSE, <<"Open the referenced document">>)
  ELSE IF ~document_panel_open /\ ~has_active_segment /\ "structure" \in message
    THEN Analysis("create_structure", 90, FALSE,
                  <<"Generate a complete story structure">>)
  ELSE IF "modifyStructure" \in message
    THEN Analysis("modify_structure", 85, FALSE, <<"Update the story structure">>)
  ELSE IF "complex" \in message
    THEN NoMatch
  ELSE NoMatch

\* -------------------------------------------------------- deep classifier
\* an exception raised out of a call, and out of a dict-returning call
Raise == "Raise"
RaiseDict == [k \in {"Raise"} |-> "Raise"]

\* DeepAnalyzer._create_fallback_intent
FallbackIntent ==
  [Analysis("general_chat", 30, TRUE,
            <<"Respond conversationally and ask for clarification">>)
     EXCEPT !.needsClarification = TRUE,
            !.clarifyingQuestion = "Could you please clarify?"]

\* _parse_response that does not validate the confidence
parse_response_unvalidated(reply) ==
  IF reply.kind # "json" THEN FallbackIntent
  ELSE [Analysis(reply.intent, reply.confidence, TRUE, <<"Process the request">>)
          EXCEPT !.needsClarification = reply.needsClarification,
                 !.clarifyingQuestion = reply.clarifyingQuestion]

\* DeepAnalyzer._parse_response: `reply` is the provider's text, of kind
\* "unparsable" (no JSON object in it) or "json" with the object's intent and
\* confidence, and its needsClarification and clarifyingQuestion (False and
\* None when the object lacks them); IntentAnalysis(...) rejects a confidence
\* outside [0, 1].
parse_response(reply) ==
  IF reply.kind # "json" THEN FallbackIntent
  ELSE IF reply.confidence < 0 \/ reply.confidence > 100 THEN FallbackIntent
  ELSE [Analysis(reply.intent, reply.confidence, TRUE, <<"Process the request">>)
          EXCEPT !.needsClarification = reply.needsClarification,
                 !.clarifyingQuestion = reply.clarifyingQuestion]

\* DeepAnalyzer.analyze: a reply of kind "raise" is the provider call failing
analyze(message, context, reply) ==
  IF reply.kind = "raise" THEN FallbackIntent
  ELSE parse_response(reply)

\* get_deep_analyzer / DeepAnalyzer._create_llm: the analyzer, or the
\* ValueError raised when neither API key is set
get_deep_analyzer(credentials) ==
  IF credentials THEN "DeepAnalyzer" ELSE Raise

\* analyze_intent with the stage order swapped round: the deep stage first,
\* the patterns only for what it could not settle
analyze_intent_deep_first(message, context, deep) ==
  LET analyzer == get_deep_analyzer(deep.credentials)
      result == IF analyzer = Raise THEN RaiseDict
                ELSE analyze(message, context, deep.reply)
      pattern_result == classify_with_patterns(message, context)
  IN  IF result \notin {RaiseDict, FallbackIntent}
      THEN [result |-> result, calls |-> <<"get_deep_analyzer", "analyze">>]
      ELSE [result |-> IF pattern_result # NoMatch THEN pattern_result ELSE result,
            calls |-> <<"get_deep_analyzer", "analyze", "classify_with_patterns">>]

\* `deep` is the deep stage's environment for this request: whether an API
\* key is set, and the provider's reply should it be called.  The result
\* comes with the calls made, in order.
analyze_intent(message, context, deep) ==
  LET pattern_result == classify_with_patterns(message, context)
  IN  IF pattern_result # NoMatch
      THEN [result |-> pattern_result, calls |-> <<"classify_with_patterns">>]
      ELSE LET analyzer == get_deep_analyzer(deep.credentials)
           IN  IF analyzer = Raise
               THEN [result |-> RaiseDict,
                     calls |-> <<"classify_with_patterns", "get_deep_analyzer">>]
               ELSE [result |-> analyze(message, context, deep.reply),
                     calls |-> <<"classify_with_patterns", "get_deep_analyzer",
                                 "analyze">>]

\* ------------------------------------------------------------------ nodes
\* PipelineContext(...) as analyze_intent_node builds it: canvasContext is
\* declared Optional[dict] and is handed the state's canvas_context, an
\* Optional[str]; a str fails the model's validation.
PipelineContextOf(s) ==
  IF s.canvas_context # None THEN RaiseDict
  ELSE [message |-> s.user_message,
        activeSegment |-> s.active_segment,
        documentPanelOpen |-> s.document_panel_open,
        canvasContext |-> NoneDict]

analyze_intent_node(s, deep) ==
  LET context == PipelineContextOf(s)
      result == IF context = RaiseDict THEN RaiseDict
                ELSE analyze_intent(s.user_message, context, deep).result
  IN  IF result # RaiseDict
      THEN [intent |-> result,
            messages |-> <<Msg("orchestrator", "thinking", "Intent", 0)>>]
      ELSE [intent |-> [intent |-> "unknown", confidence |-> 0],
            messages |-> <<Msg("system", "error", "Intent analysis failed", 0)>>,
            error |-> "analysis error"]

\* select_strategy_node with `confidence >= 0.9` for `confidence > 0.9`
select_strategy_node_ge(s) ==
  LET intent == OrEmpty(s.intent)
      intent_type == Get(intent, "intent", "")
      strategy ==
        IF intent_type \in {"answer_question", "general_chat", "navigate_section",
                            "create_structure"}
          THEN "sequential"
        ELSE IF Len(s.actions) >= 3
          THEN "parallel"
        ELSE IF intent_type \in {"write_content", "improve_content"}
                /\ s.enable_critic /\ Get(intent, "confidence", 0) >= ClusterConfidence
          THEN "cluster"
        ELSE "sequential"
  IN  [strategy |-> strategy,
       messages |-> <<Msg("orchestrator", "thinking", "Strategy", 0)>>]

select_strategy_node(s) ==
  LET intent == OrEmpty(s.intent)
      intent_type == Get(intent, "intent", "")
      actions == s.actions
      enable_critic == s.enable_critic
      strategy ==
        IF intent_type \in {"answer_question", "general_chat", "navigate_section"}
          THEN "sequential"
        ELSE IF intent_type = "create_structure"
          THEN "sequential"
        ELSE IF Len(actions) >= 3
          THEN "parallel"
        ELSE IF intent_type \in {"write_content", "improve_content"} /\ enable_critic
          THEN IF Get(intent, "confidence", 0) > ClusterConfidence
                 THEN "cluster"
                 ELSE "sequential"
        ELSE "sequential"
  IN  [strategy |-> strategy,
       messages |-> <<Msg("orchestrator", "thinking", "Strategy", 0)>>]

Action(type, payload, priority) ==
  [type |-> type, payload |-> payload, requiresUserInput |-> FALSE,
   priority |-> priority]

\* generate_actions_node that plans a generate_content for improve_content too
generate_actions_node_improve(s) ==
  LET intent == OrEmpty(s.intent)
      intent_type == Get(intent, "intent", "")
      entities == OrEmpty(Get(intent, "extractedEntities", EmptyDict))
      segment == s.active_segment
      actions ==
        IF intent_type \in {"write_content", "improve_content"} THEN
          IF segment \notin {NoneDict, EmptyDict}
          THEN <<Action("generate_content",
                        [sectionId |-> segment.id, sectionName |-> segment.name,
                         prompt |-> s.user_message], "normal")>>
          ELSE <<Action("generate_content", [prompt |-> s.user_message], "normal")>>
        ELSE IF intent_type = "create_structure" THEN
          <<Action("generate_structure",
                   [format |-> Get(entities, "documentFormat", "novel"),
                    prompt |-> s.user_message], "high")>>
        ELSE IF intent_type = "answer_question" THEN
          <<Action("generate_content",
                   [prompt |-> s.user_message, isAnswer |-> TRUE], "normal")>>
        ELSE IF intent_type = "navigate_section" THEN
          <<Action("select_section",
                   [sectionId |-> Get(entities, "targetSection", None),
                    sectionName |-> Get(entities, "targetSectionName", None)],
                   "high")>>
        ELSE IF intent_type = "general_chat" THEN
          <<Action("generate_content",
                   [prompt |-> s.user_message, isChat |-> TRUE], "low")>>
        ELSE <<>>
  IN  [actions |-> actions,
       messages |-> <<Msg("orchestrator", "thinking", "Generated actions", Len(actions))>>]

generate_actions_node(s) ==
  LET intent == OrEmpty(s.intent)
      intent_type == Get(intent, "intent", "")
      entities == OrEmpty(Get(intent, "extractedEntities", EmptyDict))
      segment == s.active_segment
      actions ==
        IF intent_type = "write_content" THEN
          IF segment \notin {NoneDict, EmptyDict}
          THEN <<Action("generate_content",
                        [sectionId |-> segment.id, sectionName |-> segment.name,
                         prompt |-> s.user_message], "normal")>>
          ELSE <<Action("generate_content", [prompt |-> s.user_message], "normal")>>
        ELSE IF intent_type = "create_structure" THEN
          <<Action("generate_structure",
                   [format |-> Get(entities, "documentFormat", "novel"),
                    prompt |-> s.user_message], "high")>>
        ELSE IF intent_type = "answer_question" THEN
          <<Action("generate_content",
                   [prompt |-> s.user_message, isAnswer |-> TRUE], "normal")>>
        ELSE IF intent_type = "navigate_section" THEN
          <<Action("select_section",
                   [sectionId |-> Get(entities, "targetSection", None),
                    sectionName |-> Get(entities, "targetSectionName", None)],
                   "high")>>
        ELSE IF intent_type = "general_chat" THEN
          <<Action("generate_content",
                   [prompt |-> s.user_message, isChat |-> TRUE], "low")>>
        ELSE <<>>
  IN  [actions |-> actions,
       messages |-> <<Msg("orchestrator", "thinking", "Generated actions", Len(actions))>>]

\* WriterLoop that generates content for every action, whatever its type
RECURSIVE WriterLoop_any_type(_, _, _, _)
WriterLoop_any_type(actions, i, results, gen) ==
  IF i > Len(actions) THEN [raised |-> FALSE, results |-> results]
  ELSE IF gen[i] = Raise
    THEN [raised |-> TRUE, results |-> results]
  ELSE WriterLoop_any_type(actions, i + 1,
                           Put(results, Get(actions[i].payload, "sectionId", "default"),
                               gen[i]),
                           gen)

\* The writer's loop over the actions from index i on: `gen[i]` is what
\* generate_content returns for the i-th action (a content string, or Raise).
RECURSIVE WriterLoop(_, _, _, _)
WriterLoop(actions, i, results, gen) ==
  IF i > Len(actions) THEN [raised |-> FALSE, results |-> results]
  ELSE IF actions[i].type = "generate_content"
    THEN IF gen[i] = Raise
         THEN [raised |-> TRUE, results |-> results]
         ELSE WriterLoop(actions, i + 1,
                         Put(results, Get(actions[i].payload, "sectionId", "default"),
                             gen[i]),
                         gen)
  ELSE WriterLoop(actions, i + 1, results, gen)

\* writer_node whose except branch reports the failure but does not record it
\* into error
writer_node_unrecorded(s, gen) ==
  LET loop == WriterLoop(s.actions, 1, OrEmpty(s.results), gen)
  IN  IF ~loop.raised
      THEN [results |-> loop.results,
            iteration |-> s.iteration + 1,
            messages |-> <<Msg("orchestrator", "result", "Content generated",
                               s.iteration + 1)>>]
      ELSE [messages |-> <<Msg("system", "error", "Writer failed", 0)>>]

\* writer_node whose successful execution clears error
writer_node_clearing_error(s, gen) ==
  LET loop == WriterLoop(s.actions, 1, OrEmpty(s.results), gen)
      current_iteration == s.iteration
  IN  IF ~loop.raised
      THEN [results |-> loop.results,
            iteration |-> current_iteration + 1,
            error |-> None,
            messages |-> <<Msg("orchestrator", "result", "Content generated",
                               current_iteration + 1)>>]
      ELSE [error |-> "writer error",
            messages |-> <<Msg("system", "error", "Writer failed", 0)>>]

writer_node(s, gen) ==
  LET loop == WriterLoop(s.actions, 1, OrEmpty(s.results), gen)
      current_iteration == s.iteration
  IN  IF ~loop.raised
      THEN [results |-> loop.results,
            iteration |-> current_iteration + 1,
            messages |-> <<Msg("orchestrator", "result", "Content generated",
                               current_iteration + 1)>>]
      ELSE [error |-> "writer error",
            messages |-> <<Msg("system", "error", "Writer failed", 0)>>]

\* critique_content: `o` is what the critique provider does for this call:
\* kind "raise" (no credential, provider or network failure, a reply that is
\* JSON but no object), "unparsable" (json.JSONDecodeError), "noscore" (an
\* object without a score) or "json" with the reply's score.
critique_content(content, o) ==
  IF o.kind = "raise" THEN RaiseDict
  ELSE IF o.kind = "unparsable"
    THEN [score |-> UnparsableScore, approved |-> TRUE]
  ELSE LET score == IF o.kind = "noscore" THEN DefaultScore ELSE o.score
       IN  [score |-> score, approved |-> score >= Threshold]

\* critic_node whose except branch rejects instead of approving
critic_node_failclosed(s, crit) ==
  LET results == OrEmpty(s.results)
      critique(k) == critique_content(results[k], crit[k])
  IN  IF DOMAIN results = {}
      THEN [critic_approved |-> TRUE,
            messages |-> <<Msg("orchestrator", "decision", "No content to review", 0)>>]
      ELSE IF \E k \in DOMAIN results : critique(k) = RaiseDict
      THEN [critic_approved |-> FALSE,
            messages |-> <<Msg("system", "error", "Critic failed, auto-approving", 0)>>]
      ELSE LET all_approved ==
                 \A k \in DOMAIN results : Get(critique(k), "approved", FALSE)
           IN  [critic_approved |-> all_approved,
                messages |-> <<Msg("orchestrator", "decision",
                                   IF all_approved THEN "Approved" ELSE "Needs revision",
                                   0)>>]

\* critic_node that approves as soon as one section is approved
critic_node_any(s, crit) ==
  LET results == OrEmpty(s.results)
      critique(k) == critique_content(results[k], crit[k])
  IN  IF DOMAIN results = {}
      THEN [critic_approved |-> TRUE,
            messages |-> <<Msg("orchestrator", "decision", "No content to review", 0)>>]
      ELSE IF \E k \in DOMAIN results : critique(k) = RaiseDict
      THEN [critic_approved |-> TRUE,
            messages |-> <<Msg("system", "error", "Critic failed, auto-approving", 0)>>]
      ELSE LET all_approved ==
                 \E k \in DOMAIN results : Get(critique(k), "approved", FALSE)
           IN  [critic_approved |-> all_approved,
                messages |-> <<Msg("orchestrator", "decision",
                                   IF all_approved THEN "Approved" ELSE "Needs revision",
                                   0)>>]

\* critic_node that does not approve when there is nothing to review
critic_node_rejects_empty(s, crit) ==
  LET results == OrEmpty(s.results)
      critique(k) == critique_content(results[k], crit[k])
  IN  IF DOMAIN results = {}
      THEN [critic_approved |-> FALSE,
            messages |-> <<Msg("orchestrator", "decision", "No content to review", 0)>>]
      ELSE IF \E k \in DOMAIN results : critique(k) = RaiseDict
      THEN [critic_approved |-> TRUE,
            messages |-> <<Msg("system", "error", "Critic failed, auto-approving", 0)>>]
      ELSE LET all_approved ==
                 \A k \in DOMAIN results : Get(critique(k), "approved", FALSE)
           IN  [critic_approved |-> all_approved,
                messages |-> <<Msg("orchestrator", "decision",
                                   IF all_approved THEN "Approved" ELSE "Needs revision",
                                   0)>>]

critic_node(s, crit) ==
  LET results == OrEmpty(s.results)
      critique(k) == critique_content(results[k], crit[k])
  IN  IF DOMAIN results = {}
      THEN [critic_approved |-> TRUE,
            messages |-> <<Msg("orchestrator", "decision", "No content to review", 0)>>]
      ELSE IF \E k \in DOMAIN results : critique(k) = RaiseDict
      THEN [critic_approved |-> TRUE,
            messages |-> <<Msg("system", "error", "Critic failed, auto-approving", 0)>>]
      ELSE LET all_approved ==
                 \A k \in DOMAIN results : Get(critique(k), "approved", FALSE)
           IN  [critic_approved |-> all_approved,
                messages |-> <<Msg("orchestrator", "decision",
                                   IF all_approved THEN "Approved" ELSE "Needs revision",
                                   0)>>]

\* merge_results_node that also clears the selection it was handed
merge_results_node_clearing_inputs(s) ==
  LET results == OrEmpty(s.results)
      completed == Cardinality({k \in DOMAIN results : results[k] # ""})
  IN  [messages |-> <<Msg("orchestrator", "result", "Completed", completed)>>,
       active_segment |-> NoneDict,
       document_panel_open |-> FALSE]

\* merge_results_node that counts every entry of results, empty or not
merge_results_node_count_all(s) ==
  LET results == OrEmpty(s.results)
      completed == Cardinality(DOMAIN results)
  IN  [messages |-> <<Msg("orchestrator", "result", "Completed", completed)>>]

merge_results_node(s) ==
  LET results == OrEmpty(s.results)
      completed == Cardinality({k \in DOMAIN results : results[k] # ""})
  IN  [messages |-> <<Msg("orchestrator", "result", "Completed", completed)>>]

\* ---------------------------------------------------------------- routers
\* should_use_critic that looks at enable_critic only
should_use_critic_any_strategy(s) ==
  IF s.enable_critic THEN "critic" ELSE "merge"

\* should_use_critic that skips the critic once error is set
should_use_critic_unless_error(s) ==
  IF s.strategy = "cluster" /\ s.enable_critic /\ s.error = None
  THEN "critic" ELSE "merge"

should_use_critic(s) ==
  IF s.strategy = "cluster" /\ s.enable_critic THEN "critic" ELSE "merge"

\* should_revise that does not look at critic_approved
should_revise_ignoring_approval(s) ==
  IF s.iteration >= s.max_iterations THEN "merge" ELSE "revise"

\* should_revise with `iteration > max_iterations`
should_revise_gt(s) ==
  IF s.critic_approved THEN "merge"
  ELSE IF s.iteration > s.max_iterations THEN "merge" ELSE "revise"

should_revise(s) ==
  IF s.critic_approved THEN "merge"
  ELSE LET iteration == s.iteration
           max_iterations ==
             IF s.max_iterations = 0 THEN DefaultMaxIterations ELSE s.max_iterations
       IN  IF iteration >= max_iterations THEN "merge" ELSE "revise"

\* needs_action without the general_chat / clarify exemption
needs_action_by_actions(s) ==
  IF s.error # None /\ s.error # "" THEN "merge"
  ELSE IF Len(s.actions) > 0 THEN "execute"
  ELSE "merge"

needs_action(s) ==
  LET actions == s.actions
      intent == OrEmpty(s.intent)
      error == s.error
      intent_type == Get(intent, "intent", "")
  IN  IF error # None /\ error # "" THEN "merge"
      ELSE IF intent_type \in {"general_chat", "clarify"} THEN "merge"
      ELSE IF Len(actions) > 0 THEN "execute"
      ELSE "merge"

\* build_orchestrator_graph: the node that follows `node` in state s (the
\* state after node's delta is merged)
NextNode(node, s) ==
  CASE node = "analyze_intent"   -> "generate_actions"
    [] node = "generate_actions" -> "select_strategy"
    [] node = "select_strategy"  ->
         IF needs_action(s) = "execute" THEN "writer" ELSE "merge_results"
    [] node = "writer"           ->
         IF should_use_critic(s) = "critic" THEN "critic" ELSE "merge_results"
    [] node = "critic"           ->
         IF should_revise(s) = "revise" THEN "writer" ELSE "merge_results"
    [] node = "merge_results"    -> "END"

\* ------------------------------------------------------------ request inputs
\* Sample messages, each the set of pattern groups it matches.
Messages ==
  { {}, {"write"}, {"improve"}, {"answer"}, {"navigate"}, {"structure"},
    {"delete"}, {"modifyStructure"}, {"rewriteCoherence"}, {"complex"},
    {"write", "openAndWrite"}, {"write", "structure"}, {"improve", "complex"} }

Segments == {NoneDict, [id |-> "ch1", name |-> "Chapter 1"]}
CanvasContexts == {None, "canvas"}

\* ------------------------------------------------------- provider outcomes
DeepIntents ==
  {"create_structure", "modify_structure", "write_content", "improve_content",
   "rewrite_with_coherence", "navigate_section", "open_and_write", "delete_node",
   "answer_question", "general_chat", "clarify"}
DeepConfidences == {50, 90, 95}
\* confidences IntentAnalysis rejects (below 0, above 1)
InvalidConfidences == {-10, 150}
\* what the classification provider does when called: the call fails, the
\* reply holds no JSON object, or it is an object with intent and confidence
\* needsClarification and clarifyingQuestion as a reply can carry them (here
\* the replies of one confidence do)
UnsureConfidence == 50
Clarifications ==
  {[needs |-> FALSE, question |-> None],
   [needs |-> TRUE, question |-> "Which chapter?"],
   [needs |-> TRUE, question |-> None]}
DeepReplies ==
  {[kind |-> k, intent |-> "", confidence |-> 0,
    needsClarification |-> FALSE, clarifyingQuestion |-> None] :
      k \in {"raise", "unparsable"}}
    \cup {[kind |-> "json", intent |-> t, confidence |-> c,
            needsClarification |-> FALSE, clarifyingQuestion |-> None] :
            t \in DeepIntents, c \in DeepConfidences \cup InvalidConfidences}
    \cup {[kind |-> "json", intent |-> t, confidence |-> UnsureConfidence,
            needsClarification |-> q.needs, clarifyingQuestion |-> q.question] :
            t \in DeepIntents, q \in Clarifications}

Contents == {"", "text"}
WriterOutcomes == Contents \cup {Raise}

Scores == 5..8
CritiqueOutcomes ==
  {[kind |-> k, score |-> 0] : k \in {"raise", "unparsable", "noscore"}}
    \cup {[kind |-> "json", score |-> sc] : sc \in Scores}

\* ------------------------------------------------------------------ engine
VARIABLES
  state,        \* the run's OrchestratorState
  pc,           \* the node the engine executes next, "END" when the run is over
  trace,        \* history: the nodes executed so far, each with how it ended
  credentials,  \* the environment: ANTHROPIC_API_KEY or OPENAI_API_KEY is set
  response      \* the OrchestrateResponse handed to the caller, once built

vars == <<state, pc, trace, credentials, response>>

\* orchestrate(): the initial state built from the request
InitialState(message, segment, panel, canvas, critic, n) ==
  [user_message |-> message,
   user_id |-> "user",
   session_id |-> "",
   active_segment |-> segment,
   document_panel_open |-> panel,
   document_format |-> None,
   canvas_context |-> canvas,
   conversation_history |-> <<>>,
   actions |-> <<>>,
   messages |-> <<>>,
   results |-> EmptyDict,
   iteration |-> 0,
   max_iterations |-> n,
   critic_approved |-> FALSE,
   enable_critic |-> critic,
   intent |-> NoneDict,
   strategy |-> None,
   error |-> None]

Init ==
  /\ \E message \in Messages, segment \in Segments, panel \in BOOLEAN,
        canvas \in CanvasContexts, critic \in BOOLEAN, n \in 1..MaxN :
       state = InitialState(message, segment, panel, canvas, critic, n)
  /\ pc = "analyze_intent"
  /\ trace = <<>>
  /\ credentials \in BOOLEAN
  /\ response = NoneDict

\* One superstep: the node's delta is merged with the reducers, then the
\* node's outgoing edge is followed on the merged state.  `outcome` is the
\* history's note of how the execution ended: its kind, the calls made and
\* the reply of the classification provider, if it was called.
Step(node, delta, outcome) ==
  LET merged == ApplyDelta(state, delta)
  IN  /\ state' = merged
      /\ pc' = NextNode(node, merged)
      /\ trace' = Append(trace, [node |-> node, outcome |-> outcome.kind,
                                 calls |-> outcome.calls, reply |-> outcome.reply])
      /\ UNCHANGED <<credentials, response>>

\* The same superstep once the log is full (MaxSteps entries): the state
\* moves on as the code moves it, but the message log and the history keep
\* their first MaxSteps entries only.
StepLogFull(node, delta, outcome) ==
  LET merged == ApplyDelta(state, delta)
  IN  /\ state' = [merged EXCEPT !.messages = state.messages]
      /\ pc' = NextNode(node, merged)
      /\ trace' = trace
      /\ UNCHANGED <<credentials, response>>

\* `unbounded` is FALSE in the specification that stops a run after MaxSteps
\* node executions, TRUE in the one that lets it run on with a full log.
Superstep(unbounded, node, delta, outcome) ==
  IF Len(trace) < MaxSteps
  THEN Step(node, delta, outcome)
  ELSE unbounded /\ StepLogFull(node, delta, outcome)

Outcome(kind) == [kind |-> kind, calls |-> <<>>, reply |-> NoneDict]

Called(calls, f) == \E i \in 1..Len(calls) : calls[i] = f

ExecAnalyzeIntent(unbounded) ==
  /\ pc = "analyze_intent"
  /\ \E reply \in DeepReplies :
       LET deep == [credentials |-> credentials, reply |-> reply]
           context == PipelineContextOf(state)
           delta == analyze_intent_node(state, deep)
           calls == IF context = RaiseDict THEN <<>>
                    ELSE analyze_intent(state.user_message, context, deep).calls
       IN  Superstep(unbounded, "analyze_intent", delta,
                     [kind |-> IF "error" \in DOMAIN delta THEN "raise" ELSE "ok",
                      calls |-> calls,
                      reply |-> IF Called(calls, "analyze") THEN reply ELSE NoneDict])

ExecGenerateActions(unbounded) ==
  /\ pc = "generate_actions"
  /\ Superstep(unbounded, "generate_actions", generate_actions_node(state),
               Outcome("ok"))

ExecSelectStrategy(unbounded) ==
  /\ pc = "select_strategy"
  /\ Superstep(unbounded, "select_strategy", select_strategy_node(state),
               Outcome("ok"))

\* generate_content raises for some generate_content action
GenRaises(actions, gen) ==
  \E i \in 1..Len(actions) : actions[i].type = "generate_content" /\ gen[i] = Raise

\* get_writer_llm raises when neither API key is set
ExecWriter(unbounded) ==
  /\ pc = "writer"
  /\ \E gen \in [1..Len(state.actions) ->
                   IF credentials THEN WriterOutcomes ELSE {Raise}] :
       Superstep(unbounded, "writer", writer_node(state, gen),
                 Outcome(IF GenRaises(state.actions, gen) THEN "raise" ELSE "ok"))

\* get_critic_llm raises when neither API key is set
ExecCritic(unbounded) ==
  /\ pc = "critic"
  /\ \E crit \in [DOMAIN OrEmpty(state.results) ->
                    IF credentials THEN CritiqueOutcomes
                    ELSE {o \in CritiqueOutcomes : o.kind = "raise"}] :
       LET delta == critic_node(state, crit)
       IN  Superstep(unbounded, "critic", delta,
                     Outcome(IF DOMAIN crit = {} THEN "empty"
                             ELSE IF \E k \in DOMAIN crit : crit[k].kind = "raise"
                               THEN "raise"
                             ELSE IF delta.critic_approved THEN "approve"
                             ELSE "reject"))

ExecMergeResults(unbounded) ==
  /\ pc = "merge_results"
  /\ Superstep(unbounded, "merge_results", merge_results_node(state),
               Outcome("ok"))

\* orchestrate(): the response built from the final state once the graph has
\* run to END.  error is a field the success branch does not pass.
OrchestrateResponse(final_state) ==
  LET intent_data == final_state.intent
  IN  [success |-> TRUE,
       intent |-> Get(intent_data, "intent", None),
       confidence |-> Get(intent_data, "confidence", None),
       strategy |-> final_state.strategy,
       actions |-> final_state.actions,
       messages |-> final_state.messages,
       results |-> final_state.results,
       iterations_used |-> final_state.iteration,
       critic_approved |-> final_state.critic_approved,
       error |-> None]

Respond ==
  /\ pc = "END"
  /\ response = NoneDict
  /\ response' = OrchestrateResponse(state)
  /\ UNCHANGED <<state, pc, trace, credentials>>

\* Runs of at most MaxSteps node executions, with their complete history.
AnalyzeIntent == ExecAnalyzeIntent(FALSE)
GenerateActions == ExecGenerateActions(FALSE)
SelectStrategy == ExecSelectStrategy(FALSE)
Writer == ExecWriter(FALSE)
Critic == ExecCritic(FALSE)
MergeResults == ExecMergeResults(FALSE)

Next ==
  \/ AnalyzeIntent
  \/ GenerateActions
  \/ SelectStrategy
  \/ Writer
  \/ Critic
  \/ MergeResults
  \/ Respond

Spec == Init /\ [][Next]_vars

\* Runs of any length.  The engine runs a started run on: it executes the
\* next node as long as the run has not reached END (provider calls return
\* or raise).
AnalyzeIntentOn == ExecAnalyzeIntent(TRUE)
GenerateActionsOn == ExecGenerateActions(TRUE)
SelectStrategyOn == ExecSelectStrategy(TRUE)
WriterOn == ExecWriter(TRUE)
CriticOn == ExecCritic(TRUE)
MergeResultsOn == ExecMergeResults(TRUE)

NextOn ==
  \/ AnalyzeIntentOn
  \/ GenerateActionsOn
  \/ SelectStrategyOn
  \/ WriterOn
  \/ CriticOn
  \/ MergeResultsOn
  \/ Respond

LiveSpec == Init /\ [][NextOn]_vars /\ WF_vars(NextOn)

\* ------------------------------------------------------- history operators
Executions(node) == {i \in 1..Len(trace) : trace[i].node = node}
WriterRuns == Cardinality(Executions("writer"))
CriticRuns == Cardinality(Executions("critic"))
WriterRaised == \E i \in Executions("writer") : trace[i].outcome = "raise"
\* the node executed after the i-th one (the node about to run when i is last)
Successor(i) == IF i < Len(trace) THEN trace[i + 1].node ELSE pc
LastNode == IF trace = <<>> THEN "START" ELSE trace[Len(trace)].node
LastOutcome == IF trace = <<>> THEN "START" ELSE trace[Len(trace)].outcome

\* ------------------------------------------------------------------ claims

\* C1: every run eventually reaches the Merge node and stops (the engine's
\* END), whatever the critic and the writer do.
C1_RunReachesEnd == <>(pc = "END")

\* The same, for the runs in which no Writer execution raises.
RunReachesEndUnlessWriterRaises == <>(pc = "END" \/ WriterRaised)

\* C2: the Writer node is executed at most max_iterations times in a run,
\* counting failing executions.
C2_WriterAtMostN == WriterRuns <= state.max_iterations

\* The same bound on the successful Writer executions alone.
SuccessfulWriterAtMostN ==
  Cardinality({i \in Executions("writer") : trace[i].outcome = "ok"})
    <= state.max_iterations

\* C3: a Critic execution in which the critique provider fails sets
\* critic_approved, appends one message of role system, and is followed by
\* Merge: no Writer execution comes after it.
C3_CriticFailOpen ==
  /\ [][(pc = "critic" /\ trace' # trace /\ LastOutcome' = "raise") =>
          /\ state'.critic_approved
          /\ Len(state'.messages) = Len(state.messages) + 1
          /\ SubSeq(state'.messages, 1, Len(state.messages)) = state.messages
          /\ state'.messages[Len(state'.messages)].role = "system"
          /\ pc' = "merge_results"]_vars
  /\ [](\A i \in Executions("critic") : trace[i].outcome = "raise" =>
          /\ Successor(i) = "merge_results"
          /\ \A j \in Executions("writer") : j < i)

\* the provider fails in a Critic execution that a rejection would have sent
\* back to the Writer
C3_Witness ==
  /\ LastNode = "critic" /\ LastOutcome = "raise"
  /\ state.iteration < state.max_iterations
  /\ pc = "merge_results"

\* C4: a Writer execution that raises sets error, appends exactly one message
\* of role system and type error, leaves results unchanged, and the run goes
\* on along the NeedsCritic? edge (to Critic or to Merge).
C4_WriterFailureContained ==
  [][(pc = "writer" /\ trace' # trace /\ LastOutcome' = "raise") =>
       /\ state'.error = "writer error"
       /\ state'.messages = Append(state.messages, Msg("system", "error", "Writer failed", 0))
       /\ state'.results = state.results
       /\ pc' = IF state.strategy = "cluster" /\ state.enable_critic
                THEN "critic" ELSE "merge_results"]_vars

\* a Writer execution raises while results holds content of an earlier one
C4_Witness ==
  /\ LastNode = "writer" /\ LastOutcome = "raise"
  /\ DOMAIN state.results # {}
  /\ state.error = "writer error"

\* the critic's k-th execution is the first that approves
CriticIndex(i) == Cardinality({j \in Executions("critic") : j <= i})
Approving(i) == trace[i].outcome \in {"approve", "raise", "empty"}
FirstApproval(i) ==
  /\ i \in Executions("critic") /\ Approving(i)
  /\ \A j \in Executions("critic") : j < i => ~Approving(j)

C5_Pre(i) ==
  /\ state.strategy = "cluster" /\ ~WriterRaised
  /\ FirstApproval(i) /\ CriticIndex(i) <= state.max_iterations

\* C5: under strategy cluster with the Writer never failing, if the Critic
\* first approves on its k-th execution, k <= max_iterations, the run
\* executes Writer k times and Critic k times and ends at Merge with
\* critic_approved set and iteration = k.
C5_ApprovalEndsLoop ==
  /\ [](\A i \in 1..Len(trace) : C5_Pre(i) =>
          /\ WriterRuns = CriticIndex(i)
          /\ CriticRuns = CriticIndex(i)
          /\ state.critic_approved
          /\ state.iteration = CriticIndex(i)
          /\ pc \in {"merge_results", "END"})
  /\ ((\E i \in 1..Len(trace) : C5_Pre(i)) ~> pc = "END")

\* the critic rejects once and approves the second writing
C5_Witness ==
  /\ pc = "END" /\ state.strategy = "cluster" /\ ~WriterRaised
  /\ CriticRuns = 2 /\ WriterRuns = 2
  /\ \E i \in 1..Len(trace) : FirstApproval(i) /\ trace[i].outcome = "approve"
                                /\ CriticIndex(i) = 2
  /\ state.max_iterations = DefaultMaxIterations

AllRejected ==
  /\ CriticRuns >= 1
  /\ \A i \in Executions("critic") : trace[i].outcome = "reject"

\* C6: under strategy cluster with the Writer never failing, if the Critic
\* rejects on every execution, the run goes to Merge as soon as
\* iteration >= max_iterations: after exactly max_iterations Writer and
\* max_iterations Critic executions, with critic_approved false and
\* iteration = max_iterations.
C6_ForcedAcceptance ==
  (state.strategy = "cluster" /\ ~WriterRaised /\ AllRejected) =>
    /\ LastNode = "critic" =>
         pc = IF state.iteration >= state.max_iterations
              THEN "merge_results" ELSE "writer"
    /\ pc \in {"merge_results", "END"} =>
         /\ WriterRuns = state.max_iterations
         /\ CriticRuns = state.max_iterations
         /\ ~state.critic_approved
         /\ state.iteration = state.max_iterations

\* every critique rejected, the run ended after more than one round
C6_Witness ==
  /\ pc = "END" /\ state.strategy = "cluster" /\ ~WriterRaised /\ AllRejected
  /\ CriticRuns > 1

UsesCritic == state.strategy = "cluster" /\ state.enable_critic

\* C7: the Critic executes only in runs with strategy cluster and
\* enable_critic set; in every other run a Writer execution is followed
\* directly by Merge.
C7_CriticOnlyInCluster ==
  /\ pc = "critic" => UsesCritic
  /\ \A i \in 1..Len(trace) :
       /\ trace[i].node = "critic" => UsesCritic
       /\ (trace[i].node = "writer" /\ ~UsesCritic) => Successor(i) = "merge_results"

\* the Writer ran under strategy sequential with the critic enabled
C7_Witness ==
  /\ LastNode = "writer" /\ state.strategy = "sequential" /\ state.enable_critic
  /\ pc = "merge_results"

\* C8 (as claimed): after the Strategy Selector the run skips to Merge if the
\* action list is empty and otherwise proceeds to the Writer.
C8_WriterIffActions ==
  LastNode = "select_strategy" =>
    pc = IF Len(state.actions) = 0 THEN "merge_results" ELSE "writer"

\* C8 (amended): after the Strategy Selector the run proceeds to the Writer
\* iff the action list is non-empty, error is unset and the intent is neither
\* general_chat nor clarify; otherwise it skips to Merge.
C8_WriterIffActionsToExecute ==
  LastNode = "select_strategy" =>
    pc = IF /\ Len(state.actions) > 0
            /\ state.error \in {None, ""}
            /\ Get(OrEmpty(state.intent), "intent", "") \notin {"general_chat", "clarify"}
         THEN "writer" ELSE "merge_results"

\* a general_chat run: one planned action, and the Writer is skipped
C8_Witness ==
  /\ LastNode = "select_strategy"
  /\ state.intent.intent = "general_chat"
  /\ Len(state.actions) = 1
  /\ pc = "merge_results"

\* the order of the nodes executed so far
C9_Order ==
  /\ \A i \in 1..Len(trace) :
       /\ i = 1 <=> trace[i].node = "analyze_intent"
       /\ i = 2 <=> trace[i].node = "generate_actions"
       /\ i = 3 <=> trace[i].node = "select_strategy"
       /\ trace[i].node = "merge_results" => i = Len(trace) /\ pc = "END"
  /\ pc = "END" => LastNode = "merge_results"

\* C9: every run executes Classifier, Action Planner and Strategy Selector
\* once each, in that order, before any Writer or Critic execution, and
\* Merge exactly once, as the last node.  (The order is read off the
\* history, which is complete while it holds fewer than MaxSteps entries.)
C9_NodeOrdering ==
  /\ [](Len(trace) < MaxSteps => C9_Order)
  /\ <>(pc = "END")

\* -------------------------------------------- the Strategy Selector alone
\* Inputs of select_strategy_node: any intent tag, confidence, number of
\* actions and enable_critic flag.
MaxActions == 4
SelectorIntents == DeepIntents \cup {"unknown", ""}
SelectorConfidences == {0, 50, 89, 90, 91, 95, 100}

SelectorInit ==
  /\ \E t \in SelectorIntents, c \in SelectorConfidences, n \in 0..MaxActions,
        critic \in BOOLEAN :
       state = [InitialState({"write"}, NoneDict, FALSE, None, critic, 1)
                  EXCEPT !.intent = Analysis(t, c, TRUE, <<"Process the request">>),
                         !.actions = [i \in 1..n |->
                                        Action("generate_content",
                                               [prompt |-> {"write"}], "normal")]]
  /\ pc = "select_strategy"
  /\ trace = <<>>
  /\ credentials = TRUE
  /\ response = NoneDict

SelectorSpec == SelectorInit /\ [][SelectStrategy]_vars

\* the rule table of the Strategy Selector, in order
RuleTable(intent_type, count, critic, confidence) ==
  IF intent_type \in {"answer_question", "general_chat", "navigate_section",
                      "create_structure"}
    THEN "sequential"
  ELSE IF count >= 3 THEN "parallel"
  ELSE IF intent_type \in {"write_content", "improve_content"} /\ critic
          /\ confidence > 90
    THEN "cluster"
  ELSE "sequential"

\* C10: the Strategy Selector's result equals the ordered rule table for
\* every intent tag, action count, enable_critic flag and confidence.
C10_SelectorTable ==
  LastNode = "select_strategy" =>
    state.strategy = RuleTable(state.intent.intent, Len(state.actions),
                               state.enable_critic, state.intent.confidence)

\* write_content with three actions, the critic enabled and confidence 0.95:
\* parallel, not cluster
C10_Witness ==
  /\ LastNode = "select_strategy"
  /\ state.intent.intent = "write_content" /\ state.intent.confidence = 95
  /\ state.enable_critic /\ Len(state.actions) = 3
  /\ state.strategy = "parallel"

\* ------------------------------------------------------- claims C11 to C20

\* C11: every Writer execution increments iteration by one, so iteration
\* equals the number of Writer executions performed so far in the run.
C11_IterationCountsWriterRuns == state.iteration = WriterRuns

\* The same count over the Writer executions that did not raise.
IterationCountsSuccessfulWriterRuns ==
  state.iteration =
    Cardinality({i \in Executions("writer") : trace[i].outcome = "ok"})

\* C13: messages are append-only: every node execution leaves the earlier
\* messages in place as a prefix and appends at least one message.
C13_MessagesAppendOnly ==
  [][trace' # trace =>
       /\ Len(state'.messages) >= Len(state.messages) + 1
       /\ SubSeq(state'.messages, 1, Len(state.messages)) = state.messages]_vars

\* a run through Writer and Critic has ended: one message per node executed
C13_Witness ==
  /\ pc = "END" /\ WriterRuns >= 2 /\ CriticRuns >= 2
  /\ Len(state.messages) = Len(trace)

\* C14: when neither provider credential is configured, the error is raised
\* before the run starts and no workflow node executes for the request.
C14_NoNodeWithoutCredentials == ~credentials => trace = <<>>

\* C15: the response's error is set exactly when the final state's error is.
C15_ResponseErrorIffStateError ==
  response # NoneDict => (response.error # None <=> state.error # None)

\* Every run that reaches END is answered with a well-formed response.
ResponseWellFormed ==
  response # NoneDict =>
    /\ response.success \in BOOLEAN
    /\ response.messages = state.messages
    /\ response.iterations_used = state.iteration

\* ---------------------------------------------------- the reducers alone
\* Deltas merged into a state one after the other, as the engine merges the
\* deltas of successive nodes; either side of a reducer may be None.
MaxDeltas == 2

ActionA == Action("generate_content", [sectionId |-> "s1"], "normal")
ActionB == Action("generate_content", [sectionId |-> "s2"], "normal")
ReducerActions == {NoneList, <<>>, <<ActionA>>, <<ActionB>>}
ReducerMessages ==
  {NoneList, <<>>, <<Msg("orchestrator", "thinking", "Intent", 0)>>,
   <<Msg("orchestrator", "result", "Completed", 1)>>}
ReducerResults ==
  {NoneDict, EmptyDict, [s1 |-> "x"], [s2 |-> "y"], [s1 |-> "z", s2 |-> "y"]}

Deltas ==
  {[actions |-> a] : a \in ReducerActions}
    \cup {[messages |-> m] : m \in ReducerMessages}
    \cup {[results |-> r] : r \in ReducerResults}
    \cup {[actions |-> a, results |-> r] :
            a \in {<<ActionA>>, <<ActionB>>},
            r \in {[s1 |-> "x"], [s1 |-> "z", s2 |-> "y"]}}

ReducerInit ==
  /\ \E a \in {NoneList, <<>>}, m \in {NoneList, <<>>},
        r \in {NoneDict, EmptyDict, [s1 |-> "x"]} :
       state = [InitialState({}, NoneDict, FALSE, None, TRUE, 1)
                  EXCEPT !.actions = a, !.messages = m, !.results = r]
  /\ pc = "reduce"
  /\ trace = <<>>
  /\ credentials = TRUE
  /\ response = NoneDict

MergeDelta ==
  /\ pc = "reduce"
  /\ Len(trace) < MaxDeltas
  /\ \E delta \in Deltas :
       /\ state' = ApplyDelta(state, delta)
       /\ trace' = Append(trace, [node |-> "reduce", outcome |-> "ok",
                                  calls |-> <<>>, reply |-> NoneDict,
                                  delta |-> delta])
  /\ UNCHANGED <<pc, credentials, response>>

ReducerSpec == ReducerInit /\ [][MergeDelta]_vars

AsList(x) == IF x = NoneList THEN <<>> ELSE x
AsDict(x) == IF x = NoneDict THEN EmptyDict ELSE x

\* C12: merging a delta appends its actions and its messages, order kept;
\* its results are united key-wise with the existing ones, the delta's value
\* winning on a key of both and no existing key removed; a None side counts
\* as empty.
C12_ReducerCorrectness ==
  [][trace' # trace =>
       LET d == trace'[Len(trace')].delta
       IN  /\ "actions" \in DOMAIN d =>
                state'.actions = AsList(state.actions) \o AsList(d.actions)
           /\ "messages" \in DOMAIN d =>
                state'.messages = AsList(state.messages) \o AsList(d.messages)
           /\ "results" \in DOMAIN d =>
                LET e == AsDict(state.results)
                    n == AsDict(d.results)
                IN  /\ DOMAIN state'.results = (DOMAIN e) \cup (DOMAIN n)
                    /\ \A k \in DOMAIN n : state'.results[k] = n[k]
                    /\ \A k \in (DOMAIN e) \ (DOMAIN n) :
                         state'.results[k] = e[k]
           /\ \A f \in {"actions", "messages", "results"} \ DOMAIN d :
                state'[f] = state[f]]_vars

\* actions [a] then [b] gave [a, b]; results {s1: x} then {s1: z, s2: y}
\* gave {s1: z, s2: y}
C12_Witness ==
  /\ Len(trace) = 2
  /\ trace[1].delta = [actions |-> <<ActionA>>, results |-> [s1 |-> "x"]]
  /\ trace[2].delta = [actions |-> <<ActionB>>,
                       results |-> [s1 |-> "z", s2 |-> "y"]]
  /\ state.actions = <<ActionA, ActionB>>
  /\ state.results = [s1 |-> "z", s2 |-> "y"]

\* ------------------------------------------------ the two-stage classifier
\* the classification provider was called and failed, or its reply was
\* unparsable or invalid (a confidence outside [0, 1])
DeepFailed(reply) ==
  \/ reply.kind \in {"raise", "unparsable"}
  \/ reply.kind = "json" /\ (reply.confidence < 0 \/ reply.confidence > 100)

ProviderCalled == Len(trace) >= 1 /\ trace[1].reply # NoneDict
C16_Pre == ProviderCalled /\ DeepFailed(trace[1].reply)

ClassifierSegments == {NoneDict, EmptyDict, [id |-> "ch1", name |-> "Chapter 1"]}
ClassifierCanvases == {NoneDict, EmptyDict, [totalNodes |-> 1]}

ClassifierInit ==
  /\ \E message \in SUBSET Groups, segment \in ClassifierSegments,
        panel \in BOOLEAN, canvas \in ClassifierCanvases :
       state = [message |-> message,
                context |-> [message |-> message,
                             activeSegment |-> segment,
                             documentPanelOpen |-> panel,
                             canvasContext |-> canvas],
                result |-> NoneDict]
  /\ pc = "classify_with_patterns"
  /\ trace = <<>>
  /\ credentials = TRUE
  /\ response = NoneDict

Classify ==
  /\ pc = "classify_with_patterns"
  /\ state' = [state EXCEPT
                 !.result = classify_with_patterns(state.message, state.context)]
  /\ pc' = "return"
  /\ trace' = Append(trace, [node |-> "classify_with_patterns", outcome |-> "ok",
                             calls |-> <<>>, reply |-> NoneDict])
  /\ UNCHANGED <<credentials, response>>

ClassifierSpec == ClassifierInit /\ [][Classify]_vars

\* the tiers in priority order: guard, rule set, intent and confidence
Tiers ==
  << [guard |-> "panelOpen", group |-> "navigate",
      intent |-> "navigate_section", confidence |-> 95],
     [guard |-> "segment", group |-> "write",
      intent |-> "write_content", confidence |-> 95],
     [guard |-> "segment", group |-> "rewriteCoherence",
      intent |-> "rewrite_with_coherence", confidence |-> 95],
     [guard |-> "segment", group |-> "improve",
      intent |-> "improve_content", confidence |-> 90],
     [guard |-> "none", group |-> "delete",
      intent |-> "delete_node", confidence |-> 90],
     [guard |-> "none", group |-> "answer",
      intent |-> "answer_question", confidence |-> 90],
     [guard |-> "canvas", group |-> "openAndWrite",
      intent |-> "open_and_write", confidence |-> 95],
     [guard |-> "closed", group |-> "structure",
      intent |-> "create_structure", confidence |-> 90],
     [guard |-> "none", group |-> "modifyStructure",
      intent |-> "modify_structure", confidence |-> 85] >>

SegmentSet(context) == context.activeSegment # NoneDict
Closed(context) == ~context.documentPanelOpen /\ ~SegmentSet(context)

GuardHolds(guard, context) ==
  CASE guard = "panelOpen" -> context.documentPanelOpen
    [] guard = "segment"   -> SegmentSet(context)
    [] guard = "canvas"    ->
         Closed(context) /\ DOMAIN context.canvasContext \notin {{}, {"None"}}
    [] guard = "closed"    -> Closed(context)
    [] guard = "none"      -> TRUE

Matching(message, context) ==
  {i \in 1..Len(Tiers) :
     GuardHolds(Tiers[i].guard, context) /\ Tiers[i].group \in message}

\* C18: the pattern classifier returns the intent and confidence of the first
\* tier, in priority order, whose guard holds and whose rule set matches the
\* message (and no analysis when no tier does).
C18_FirstTierWins ==
  pc = "return" =>
    LET matching == Matching(state.message, state.context)
    IN  IF matching = {} THEN state.result = NoMatch
        ELSE LET first == CHOOSE i \in matching : \A j \in matching : i <= j
             IN  /\ state.result # NoMatch
                 /\ state.result.intent = Tiers[first].intent
                 /\ state.result.confidence = Tiers[first].confidence
                 /\ state.result.usedLLM = FALSE

\* improve, delete and answer all match with a segment selected: the
\* segment tier wins
C18_Witness ==
  /\ pc = "return"
  /\ {"improve", "delete", "answer"} \subseteq state.message
  /\ "write" \notin state.message /\ "rewriteCoherence" \notin state.message
  /\ SegmentSet(state.context) /\ ~state.context.documentPanelOpen
  /\ state.result.intent = "improve_content" /\ state.result.confidence = 90

IsAnswer(result) ==
  /\ Get(result, "intent", None) = "answer_question"
  /\ Get(result, "confidence", 0) >= 90
  /\ Get(result, "usedLLM", TRUE) = FALSE

\* C19 (as claimed): for every message matching the interrogative patterns
\* and every context, the classifier returns answer_question with confidence
\* at least 0.9 and usedLLM false.
C19_QuestionIsAnswered ==
  (pc = "return" /\ "answer" \in state.message) => IsAnswer(state.result)

\* a tier ahead of the answer tier matches
HigherThanAnswer(message, context) ==
  \/ context.documentPanelOpen /\ "navigate" \in message
  \/ SegmentSet(context)
       /\ message \cap {"write", "rewriteCoherence", "improve"} # {}
  \/ "delete" \in message

\* C19 (amended): the same, for the contexts and messages in which no tier of
\* higher priority (navigation with the panel open, write / rewrite / improve
\* with a segment selected, delete) matches.
C19_QuestionIsAnsweredUnlessHigherTier ==
  (pc = "return" /\ "answer" \in state.message
     /\ ~HigherThanAnswer(state.message, state.context))
    => IsAnswer(state.result)

\* a question that also matches the structure patterns, on the closed canvas
C19_Witness ==
  /\ pc = "return"
  /\ {"answer", "structure", "modifyStructure"} \subseteq state.message
  /\ ~HigherThanAnswer(state.message, state.context)
  /\ Closed(state.context)
  /\ IsAnswer(state.result)

IsWrite(result, context) ==
  /\ Get(result, "intent", None) = "write_content"
  /\ Get(result, "confidence", 0) = 95
  /\ "name" \in DOMAIN context.activeSegment =>
       \E i \in 1..Len(result.suggestedAction) :
         result.suggestedAction[i] = context.activeSegment.name

\* C20 (as claimed): for every message containing a write-verb and every
\* context with an active segment, the classifier returns write_content with
\* confidence 0.95 and the segment's name in suggestedAction.
C20_WriteVerbWithSegment ==
  (pc = "return" /\ "write" \in state.message /\ SegmentSet(state.context))
    => IsWrite(state.result, state.context)

\* C20 (amended): the same, unless the document panel is open and the message
\* also matches the navigation patterns (navigate_section comes first).
C20_WriteVerbWithSegmentUnlessNavigation ==
  (pc = "return" /\ "write" \in state.message /\ SegmentSet(state.context)
     /\ ~(state.context.documentPanelOpen /\ "navigate" \in state.message))
    => IsWrite(state.result, state.context)

\* "write" with the panel open on a named segment, the message matching
\* lower tiers as well
C20_Witness ==
  /\ pc = "return"
  /\ {"write", "delete", "answer"} \subseteq state.message
  /\ "navigate" \notin state.message
  /\ state.context.documentPanelOpen
  /\ state.context.activeSegment = [id |-> "ch1", name |-> "Chapter 1"]
  /\ IsWrite(state.result, state.context)

\* ------------------------------------------------- claims C21 to C24
SegmentIntents == {"write_content", "rewrite_with_coherence", "improve_content"}
ResultIntent == Get(state.result, "intent", None)

\* C21: with activeSegment None the pattern classifier never returns
\* write_content, rewrite_with_coherence or improve_content, whatever the
\* message: the result is no analysis or another intent.
C21_SegmentGating ==
  (pc = "return" /\ state.context.activeSegment = NoneDict) =>
    ResultIntent \notin SegmentIntents

\* the write, rewrite and improve patterns all match, with no segment
C21_Witness ==
  /\ pc = "return" /\ state.context.activeSegment = NoneDict
  /\ {"write", "rewriteCoherence", "improve"} \subseteq state.message
  /\ ResultIntent \notin SegmentIntents

\* C22: create_structure is returned only with the document panel closed and
\* no active segment; with either one on, a message matching the structure
\* patterns gets no analysis or another intent.
C22_StructureOnlyOnClosedCanvas ==
  pc = "return" =>
    /\ ResultIntent = "create_structure" =>
         /\ ~state.context.documentPanelOpen
         /\ state.context.activeSegment = NoneDict
    /\ ("structure" \in state.message
          /\ (state.context.documentPanelOpen
                \/ state.context.activeSegment # NoneDict)) =>
         ResultIntent # "create_structure"

\* a structure request alone, with the document panel open
C22_Witness ==
  /\ pc = "return" /\ state.message = {"structure"}
  /\ state.context.documentPanelOpen
  /\ state.result = NoMatch

\* C23: navigate_section is returned only with the document panel open; with
\* the panel open a navigation phrase gives navigate_section, confidence
\* 0.95, whatever the segment and the other patterns matched.
C23_NavigationNeedsOpenPanel ==
  pc = "return" =>
    /\ ResultIntent = "navigate_section" => state.context.documentPanelOpen
    /\ ("navigate" \in state.message /\ ~state.context.documentPanelOpen) =>
         ResultIntent # "navigate_section"
    /\ ("navigate" \in state.message /\ state.context.documentPanelOpen) =>
         /\ ResultIntent = "navigate_section"
         /\ state.result.confidence = 95

\* a navigation phrase that also matches write and delete, panel open and a
\* segment selected
C23_Witness ==
  /\ pc = "return" /\ {"navigate", "write", "delete"} \subseteq state.message
  /\ state.context.documentPanelOpen /\ state.context.activeSegment # NoneDict
  /\ ResultIntent = "navigate_section"

\* C24: the pattern classifier returns no analysis exactly when no tier
\* applies, whether or not the message matches the complex patterns.
C24_NoneIffNoTier ==
  pc = "return" =>
    (state.result = NoMatch <=> Matching(state.message, state.context) = {})

\* a complex-pattern match next to a tier that applies: the tier's analysis
C24_Witness ==
  /\ pc = "return" /\ state.message = {"complex", "modifyStructure"}
  /\ state.result # NoMatch /\ ResultIntent = "modify_structure"

\* C26: every IntentAnalysis produced by classification (pattern stage,
\* parsed provider reply or fallback) with needsClarification set carries a
\* clarifyingQuestion.
C26_ClarificationHasQuestion ==
  (Len(trace) >= 1 /\ trace[1].outcome = "ok") =>
    (state.intent.needsClarification => state.intent.clarifyingQuestion # None)

\* The same for the analyses of the pattern stage and the fallback.
ClarificationHasQuestionUnlessParsed ==
  (Len(trace) >= 1 /\ trace[1].outcome = "ok"
     /\ (trace[1].reply = NoneDict \/ state.intent = FallbackIntent)) =>
    (state.intent.needsClarification => state.intent.clarifyingQuestion # None)

\* ------------------------------------------------ the Action Planner alone
\* Inputs of generate_actions_node: any intent tag, with or without
\* extractedEntities, and the segment of the request.
PlannerEntities ==
  {NoneDict, EmptyDict, [documentFormat |-> "screenplay"],
   [targetSection |-> "ch2", targetSectionName |-> "Chapter 2"]}
PlannerIntents ==
  {Analysis(t, 90, TRUE, <<"Process the request">>) : t \in SelectorIntents}
    \cup {[intent |-> t, confidence |-> 90, extractedEntities |-> e] :
            t \in SelectorIntents, e \in PlannerEntities}
    \cup {NoneDict}

PlannerInit ==
  /\ \E intent \in PlannerIntents, segment \in Segments,
        message \in {{"write"}, {"structure"}} :
       state = [InitialState(message, segment, segment # NoneDict, None, TRUE, 1)
                  EXCEPT !.intent = intent]
  /\ pc = "generate_actions"
  /\ trace = <<>>
  /\ credentials = TRUE
  /\ response = NoneDict

PlannerSpec == PlannerInit /\ [][GenerateActions]_vars

Tag == Get(OrEmpty(state.intent), "intent", "")
Entities == OrEmpty(Get(OrEmpty(state.intent), "extractedEntities", EmptyDict))

\* C27: the Action Planner maps write_content to one generate_content (with
\* sectionId, sectionName and prompt when a segment is active, the prompt
\* alone otherwise), create_structure to one generate_structure of priority
\* high whose format is extractedEntities.documentFormat or novel,
\* answer_question and general_chat to one generate_content,
\* navigate_section to one select_section, every other tag to the empty
\* list; it records no error.
C27_PlannerTable ==
  LastNode = "generate_actions" =>
    LET a == state.actions
        segment == state.active_segment
    IN  /\ state.error = None
        /\ LastOutcome = "ok"
        /\ CASE Tag = "write_content" ->
                  /\ Len(a) = 1 /\ a[1].type = "generate_content"
                  /\ a[1].payload.prompt = state.user_message
                  /\ IF segment # NoneDict
                     THEN /\ DOMAIN a[1].payload =
                               {"sectionId", "sectionName", "prompt"}
                          /\ a[1].payload.sectionId = segment.id
                          /\ a[1].payload.sectionName = segment.name
                     ELSE DOMAIN a[1].payload = {"prompt"}
             [] Tag = "create_structure" ->
                  /\ Len(a) = 1 /\ a[1].type = "generate_structure"
                  /\ a[1].priority = "high"
                  /\ a[1].payload.format =
                       IF "documentFormat" \in DOMAIN Entities
                       THEN Entities.documentFormat ELSE "novel"
             [] Tag \in {"answer_question", "general_chat"} ->
                  Len(a) = 1 /\ a[1].type = "generate_content"
             [] Tag = "navigate_section" ->
                  Len(a) = 1 /\ a[1].type = "select_section"
             [] OTHER -> a = <<>>

\* improve_content with a segment selected: nothing is planned
C27_Witness ==
  /\ LastNode = "generate_actions" /\ Tag = "improve_content"
  /\ state.active_segment # NoneDict
  /\ state.actions = <<>>

\* ---------------------------------------------------------- the Critic alone
\* Inputs of critic_node: results with zero, one or several sections, and
\* one outcome of critique_content per section.  The history keeps the
\* provider calls made and the outcomes drawn.
Sections == {"s1", "s2"}
CriticResults ==
  UNION {[S -> Contents] : S \in SUBSET Sections}

CriticInit ==
  /\ \E results \in CriticResults, n \in 1..MaxN :
       state = [InitialState({"write"}, NoneDict, FALSE, None, TRUE, n)
                  EXCEPT !.results = results,
                         !.iteration = 1,
                         !.strategy = "cluster"]
  /\ pc = "critic"
  /\ trace = <<>>
  /\ credentials = TRUE
  /\ response = NoneDict

\* the orders in which `for section_id, content in results.items()` can
\* visit the sections
ReviewOrders(S) ==
  {ord \in [1..Cardinality(S) -> S] : \A k \in S : \E i \in DOMAIN ord : ord[i] = k}

\* the calls of critique_content the loop makes: it stops at the first one
\* that raises
Reviewed(ord, crit) ==
  LET raising == {i \in DOMAIN ord : crit[ord[i]].kind = "raise"}
      last == IF raising = {} THEN Len(ord)
              ELSE CHOOSE i \in raising : \A j \in raising : i <= j
  IN  [i \in 1..last |-> "critique_content"]

CriticAlone ==
  /\ pc = "critic"
  /\ \E crit \in [DOMAIN OrEmpty(state.results) -> CritiqueOutcomes],
        ord \in ReviewOrders(DOMAIN OrEmpty(state.results)) :
       LET delta == critic_node(state, crit)
       IN  Step("critic", delta,
                [kind |-> IF DOMAIN crit = {} THEN "empty"
                          ELSE IF \E k \in DOMAIN crit : crit[k].kind = "raise"
                            THEN "raise"
                          ELSE IF delta.critic_approved THEN "approve"
                          ELSE "reject",
                 calls |-> Reviewed(ord, crit),
                 reply |-> crit])

CriticSpec == CriticInit /\ [][CriticAlone]_vars

\* the score critique_content settles on for one provider reply
SectionScore(o) ==
  IF o.kind = "unparsable" THEN UnparsableScore
  ELSE IF o.kind = "noscore" THEN DefaultScore
  ELSE o.score

\* C30: a Critic execution that ends without a provider failure sets
\* critic_approved to the conjunction over all entries of results of
\* (score >= 7); with results empty it calls no provider and approves.
C30_CriticIsConjunction ==
  (LastNode = "critic" /\ LastOutcome # "raise") =>
    LET crit == trace[Len(trace)].reply
        calls == trace[Len(trace)].calls
    IN  /\ DOMAIN crit = DOMAIN state.results
        /\ state.critic_approved =
             (\A k \in DOMAIN crit : SectionScore(crit[k]) >= 7)
        /\ (\E k \in DOMAIN crit : SectionScore(crit[k]) < 7)
             => ~state.critic_approved
        /\ Len(calls) = Cardinality(DOMAIN crit)
        /\ DOMAIN state.results = {} => (calls = <<>> /\ state.critic_approved)

\* two sections, one scored 8 and one scored 6: not approved
C30_Witness ==
  /\ LastNode = "critic" /\ LastOutcome = "reject"
  /\ LET crit == trace[Len(trace)].reply
     IN  /\ DOMAIN crit = Sections
         /\ \E k \in Sections : crit[k].kind = "json" /\ crit[k].score = 8
         /\ \E k \in Sections : crit[k].kind = "json" /\ crit[k].score = 6
  /\ ~state.critic_approved

\* ------------------------------------------- repeated pattern classifications
\* SIMPLE_PATTERNS, STRUCTURE_PATTERNS and COMPLEX_PATTERNS are module-level
\* tables of compiled expressions; `patterns` is the set of rule groups the
\* tables hold.  A call searches the message with the tables, and hands back
\* its result together with the context and the tables as it leaves them.
MaxCalls == 3

\* classify_with_patterns whose search consumes the rules it matched
classify_call_consuming(message, context, patterns) ==
  [result |-> classify_with_patterns({g \in message : g \in patterns}, context),
   context |-> context,
   patterns |-> patterns \ message]

classify_call(message, context, patterns) ==
  [result |-> classify_with_patterns({g \in message : g \in patterns}, context),
   context |-> context,
   patterns |-> patterns]

RepeatMessages == { {"write"}, {"answer"}, {"write", "structure"}, {"complex"} }
RepeatContexts ==
  {[activeSegment |-> NoneDict, documentPanelOpen |-> FALSE,
    canvasContext |-> NoneDict],
   [activeSegment |-> NoneDict, documentPanelOpen |-> TRUE,
    canvasContext |-> NoneDict],
   [activeSegment |-> [id |-> "ch1", name |-> "Chapter 1"],
    documentPanelOpen |-> TRUE, canvasContext |-> [totalNodes |-> 1]]}

RepeatInit ==
  /\ state = [patterns |-> Groups]
  /\ pc = "classify_with_patterns"
  /\ trace = <<>>
  /\ credentials = TRUE
  /\ response = NoneDict

Reclassify ==
  /\ pc = "classify_with_patterns"
  /\ Len(trace) < MaxCalls
  /\ \E message \in RepeatMessages, c \in RepeatContexts :
       LET context == [message |-> message,
                       activeSegment |-> c.activeSegment,
                       documentPanelOpen |-> c.documentPanelOpen,
                       canvasContext |-> c.canvasContext]
           r == classify_call(message, context, state.patterns)
       IN  /\ state' = [state EXCEPT !.patterns = r.patterns]
           /\ trace' = Append(trace, [node |-> "classify_with_patterns",
                                      outcome |-> "ok",
                                      message |-> message,
                                      context |-> context,
                                      after |-> r.context,
                                      result |-> r.result])
  /\ UNCHANGED <<pc, credentials, response>>

RepeatSpec == RepeatInit /\ [][Reclassify]_vars

MaxCallers == 3
Endpoints == {"orchestrate", "orchestrate_stream"}
Callers == 1..MaxCallers

\* scheduling where every statement is a switch point
Yields_anywhere(loc) == TRUE

\* the locations at which a coroutine hands the event loop back
Yields(loc) == loc \in {"ainvoke", "done"}

CallersInit ==
  /\ \E endpoint \in [Callers -> Endpoints] :
       state = [compiled_graph |-> NoneDict,
                built |-> 0,
                compiled |-> 0,
                running |-> 0,
                callers |-> [c \in Callers |->
                              [endpoint |-> endpoint[c],
                               loc |-> "start",
                               graph |-> NoneDict,
                               orchestrator |-> NoneDict]]]
  /\ pc = "get_orchestrator"
  /\ trace = <<>>
  /\ credentials = TRUE
  /\ response = NoneDict

Schedulable(c) == state.running = c \/ state.running = 0

\* caller c moves to `loc`; it keeps the event loop unless `loc` yields
Moved(s, c, loc) ==
  [s EXCEPT !.callers[c].loc = loc,
            !.running = IF Yields(loc) THEN 0 ELSE c]

\* the endpoint's coroutine starts and reaches its call of get_orchestrator
Enter(c) ==
  /\ Schedulable(c) /\ state.callers[c].loc = "start"
  /\ state' = Moved(state, c, "check")
  /\ UNCHANGED <<pc, trace, credentials, response>>

\* if _compiled_graph is None
CheckNone(c) ==
  /\ Schedulable(c) /\ state.callers[c].loc = "check"
  /\ state' = Moved(state, c, IF state.compiled_graph = NoneDict
                               THEN "build" ELSE "return")
  /\ UNCHANGED <<pc, trace, credentials, response>>

\* graph = build_orchestrator_graph()
Build(c) ==
  /\ Schedulable(c) /\ state.callers[c].loc = "build"
  /\ state' = Moved([state EXCEPT !.built = @ + 1,
                                  !.callers[c].graph = [built |-> state.built + 1]],
                    c, "compile")
  /\ UNCHANGED <<pc, trace, credentials, response>>

\* _compiled_graph = graph.compile()
Compile(c) ==
  /\ Schedulable(c) /\ state.callers[c].loc = "compile"
  /\ LET instance == [id |-> state.compiled + 1]
     IN  /\ state' = Moved([state EXCEPT !.compiled = @ + 1,
                                         !.compiled_graph = instance],
                           c, "return")
         /\ trace' = Append(trace, [node |-> "get_orchestrator",
                                    outcome |-> "assign",
                                    caller |-> c,
                                    value |-> instance])
  /\ UNCHANGED <<pc, credentials, response>>

\* return _compiled_graph, then the endpoint awaits orchestrator.ainvoke
ReturnGraph(c) ==
  /\ Schedulable(c) /\ state.callers[c].loc = "return"
  /\ state' = Moved([state EXCEPT !.callers[c].orchestrator = state.compiled_graph],
                    c, "ainvoke")
  /\ UNCHANGED <<pc, trace, credentials, response>>

\* the awaited run completes; it reads the graph and never writes it
Invoke(c) ==
  /\ Schedulable(c) /\ state.callers[c].loc = "ainvoke"
  /\ state' = Moved(state, c, "done")
  /\ UNCHANGED <<pc, trace, credentials, response>>

CallersNext ==
  \E c \in Callers :
    \/ Enter(c)
    \/ CheckNone(c)
    \/ Build(c)
    \/ Compile(c)
    \/ ReturnGraph(c)
    \/ Invoke(c)

CallersSpec == CallersInit /\ [][CallersNext]_vars

\* C29: whatever the interleaving of the callers of get_orchestrator, the
\* graph is built and compiled at most once, every call returns the same
\* instance, and _compiled_graph is assigned at most once.
C29_CompiledOnce ==
  /\ state.built <= 1 /\ state.compiled <= 1
  /\ Len(trace) <= 1
  /\ \A c \in Callers :
       state.callers[c].loc \in {"ainvoke", "done"} =>
         /\ state.callers[c].orchestrator # NoneDict
         /\ state.callers[c].orchestrator = state.compiled_graph
  /\ \A c, d \in Callers :
       (state.callers[c].orchestrator # NoneDict
          /\ state.callers[d].orchestrator # NoneDict)
         => state.callers[c].orchestrator = state.callers[d].orchestrator

\* two callers awaiting their runs at the same time, on the one instance
C29_Witness ==
  \E c, d \in Callers :
    /\ c # d
    /\ state.callers[c].loc = "ainvoke" /\ state.callers[d].loc = "ainvoke"
    /\ state.callers[c].graph # NoneDict /\ state.callers[d].graph = NoneDict
    /\ state.callers[c].orchestrator = state.compiled_graph
    /\ state.callers[d].orchestrator = state.compiled_graph
    /\ state.compiled_graph # NoneDict

\* ------------------------------------------------------ two concurrent runs
\* Two requests handled by one event loop.  Each ainvoke owns the state built
\* from its request; a node that calls a provider is suspended between its
\* read of the state and its return of the delta, and the other run may move
\* meanwhile.  `state.runs` holds the OrchestratorState of each run,
\* `state.held` the state a suspended node was handed, `pc` and `trace` the
\* position and the history of each run.
MaxRunSteps == 8
Runs == {"a", "b"}

RunRequests ==
  {InitialState({"write"}, [id |-> "ch1", name |-> "Chapter 1"], TRUE, None, TRUE, 2),
   InitialState({}, NoneDict, FALSE, None, TRUE, 1),
   InitialState({"answer"}, NoneDict, FALSE, None, FALSE, 1)}

RunReplies ==
  {x \in DeepReplies :
     \/ x.kind = "raise"
     \/ x.kind = "json" /\ x.intent = "write_content" /\ x.confidence = 95
          /\ ~x.needsClarification}
RunWriterOutcomes == {"text", Raise}
RunCritiqueOutcomes ==
  {o \in CritiqueOutcomes : o.kind = "json" /\ o.score \in {6, 8}}

\* the nodes that await a provider
Suspends(node) == node \in {"analyze_intent", "writer", "critic"}

NoProvider ==
  [reply |-> CHOOSE x \in DeepReplies : x.kind = "raise",
   gen |-> <<>>, crit |-> EmptyDict]

\* what the providers can answer to the node executing on state s
ProviderResponses(node, s) ==
  CASE node = "analyze_intent" ->
         IF PipelineContextOf(s) # RaiseDict
              /\ classify_with_patterns(s.user_message, PipelineContextOf(s)) = NoMatch
         THEN {[NoProvider EXCEPT !.reply = x] : x \in RunReplies}
         ELSE {NoProvider}
    [] node = "writer" ->
         {[NoProvider EXCEPT !.gen = g] :
            g \in [1..Len(s.actions) -> RunWriterOutcomes]}
    [] node = "critic" ->
         {[NoProvider EXCEPT !.crit = c] :
            c \in [DOMAIN OrEmpty(s.results) -> RunCritiqueOutcomes]}
    [] OTHER -> {NoProvider}

\* the delta `node` returns on state s when the providers answer p
NodeDelta(node, s, p) ==
  CASE node = "analyze_intent" ->
         analyze_intent_node(s, [credentials |-> TRUE, reply |-> p.reply])
    [] node = "generate_actions" -> generate_actions_node(s)
    [] node = "select_strategy" -> select_strategy_node(s)
    [] node = "writer" -> writer_node(s, p.gen)
    [] node = "critic" -> critic_node(s, p.crit)
    [] node = "merge_results" -> merge_results_node(s)

\* a merge that also writes the delta's results into the other runs
MergeInto_shared_results(states, r, delta) ==
  [q \in DOMAIN states |->
     IF q = r THEN ApplyDelta(states[q], delta)
     ELSE IF "results" \in DOMAIN delta
       THEN [states[q] EXCEPT !.results = merge_results(@, delta.results)]
     ELSE states[q]]

\* the engine merges the delta into the state of the run the node belongs to
MergeInto(states, r, delta) ==
  [states EXCEPT ![r] = ApplyDelta(states[r], delta)]

RunsInit ==
  /\ \E requests \in [Runs -> RunRequests] :
       state = [requests |-> requests,
                runs |-> requests,
                held |-> [r \in Runs |-> NoneDict]]
  /\ pc = [r \in Runs |-> "analyze_intent"]
  /\ trace = [r \in Runs |-> <<>>]
  /\ credentials = TRUE
  /\ response = NoneDict

Finish(r, read, p) ==
  LET delta == NodeDelta(pc[r], read, p)
      merged == MergeInto(state.runs, r, delta)
  IN  /\ state' = [state EXCEPT !.runs = merged, !.held[r] = NoneDict]
      /\ pc' = [pc EXCEPT ![r] = NextNode(pc[r], merged[r])]
      /\ trace' = [trace EXCEPT ![r] = Append(@, [node |-> pc[r], provider |-> p])]
      /\ UNCHANGED <<credentials, response>>

\* a node that awaits a provider is handed the state of its run and suspends
RunAwait(r) ==
  /\ pc[r] # "END" /\ Suspends(pc[r])
  /\ state.held[r] = NoneDict
  /\ Len(trace[r]) < MaxRunSteps
  /\ state' = [state EXCEPT !.held[r] = state.runs[r]]
  /\ UNCHANGED <<pc, trace, credentials, response>>

\* the provider answers: the suspended node returns its delta
RunResume(r) ==
  /\ state.held[r] # NoneDict
  /\ \E p \in ProviderResponses(pc[r], state.held[r]) :
       Finish(r, state.held[r], p)

\* a node without a provider call runs without suspension
RunNode(r) ==
  /\ pc[r] # "END" /\ ~Suspends(pc[r])
  /\ Len(trace[r]) < MaxRunSteps
  /\ Finish(r, state.runs[r], NoProvider)

RunsNext ==
  \E r \in Runs :
    \/ RunAwait(r)
    \/ RunResume(r)
    \/ RunNode(r)

RunsSpec == RunsInit /\ [][RunsNext]_vars

\* the run of `request` executed alone with the provider answers of `log`
RECURSIVE Solo(_, _)
Solo(request, log) ==
  IF log = <<>>
  THEN [state |-> request, pc |-> "analyze_intent", inOrder |-> TRUE]
  ELSE LET before == Solo(request, SubSeq(log, 1, Len(log) - 1))
           e == log[Len(log)]
           after == ApplyDelta(before.state,
                               NodeDelta(e.node, before.state, e.provider))
       IN  [state |-> after,
            pc |-> NextNode(e.node, after),
            inOrder |-> before.inOrder /\ e.node = before.pc]

\* C28: however two runs interleave at their suspension points, the state a
\* suspended node was handed is still the state of its run when it resumes,
\* and the state and position of each run are those of the same run executed
\* alone with the same provider answers.
C28_RunsIndependent ==
  \A r \in Runs :
    LET solo == Solo(state.requests[r], trace[r])
    IN  /\ solo.inOrder
        /\ solo.state = state.runs[r]
        /\ solo.pc = pc[r]
        /\ state.held[r] # NoneDict => state.held[r] = state.runs[r]

\* both runs over, one of them having produced a section while the critic of
\* the other rejected and the writer ran again
C28_Witness ==
  /\ pc["a"] = "END" /\ pc["b"] = "END"
  /\ state.requests["a"] # state.requests["b"]
  /\ state.runs["a"].iteration = 2
  /\ state.runs["b"].iteration = 1
  /\ state.runs["a"].results # EmptyDict /\ state.runs["b"].results # EmptyDict
  /\ state.runs["a"].results # state.runs["b"].results

\* ---------------------------------------------------------- the Writer alone
\* Inputs of writer_node: any plan of up to MaxPlan actions of the types the
\* planner emits, results empty or holding an earlier section, and one
\* outcome of generate_content per action.  The history keeps the provider
\* calls made, the outcomes drawn and the results the node was handed.
MaxPlan == 2

WriterActions ==
  {Action("generate_content",
          [sectionId |-> "ch1", sectionName |-> "Chapter 1", prompt |-> {"write"}],
          "normal"),
   Action("generate_content",
          [sectionId |-> "ch2", sectionName |-> "Chapter 2", prompt |-> {"write"}],
          "normal"),
   Action("generate_content", [prompt |-> {"write"}], "normal"),
   Action("generate_structure", [format |-> "novel", prompt |-> {"structure"}],
          "high"),
   Action("select_section", [sectionId |-> "ch2", sectionName |-> "Chapter 2"],
          "high")}

WriterPlans == UNION {[1..n -> WriterActions] : n \in 0..MaxPlan}

WriterInit ==
  /\ \E plan \in WriterPlans, results \in {EmptyDict, [ch1 |-> "old"]} :
       state = [InitialState({"write"}, NoneDict, FALSE, None, FALSE, 1)
                  EXCEPT !.actions = plan,
                         !.results = results,
                         !.strategy = "sequential"]
  /\ pc = "writer"
  /\ trace = <<>>
  /\ credentials = TRUE
  /\ response = NoneDict

\* the calls of generate_content the loop makes from index i on, each with
\* the index of its action and the section_name passed: the loop stops at
\* the first call that raises
RECURSIVE WriterCalls(_, _, _)
WriterCalls(actions, i, gen) ==
  IF i > Len(actions) THEN <<>>
  ELSE IF actions[i].type = "generate_content"
    THEN LET call == [action |-> i,
                      section_name |-> Get(actions[i].payload, "sectionName",
                                           "Content")]
         IN  IF gen[i] = Raise THEN <<call>>
             ELSE <<call>> \o WriterCalls(actions, i + 1, gen)
  ELSE WriterCalls(actions, i + 1, gen)

WriterAlone ==
  /\ pc = "writer"
  /\ \E gen \in [1..Len(state.actions) -> WriterOutcomes] :
       Step("writer", writer_node(state, gen),
            [kind |-> IF GenRaises(state.actions, gen) THEN "raise" ELSE "ok",
             calls |-> WriterCalls(state.actions, 1, gen),
             reply |-> [gen |-> gen, results |-> OrEmpty(state.results)]])

WriterSpec == WriterInit /\ [][WriterAlone]_vars

\* the key under which the output of an action is stored
SectionKey(action) ==
  IF "sectionId" \in DOMAIN action.payload THEN action.payload.sectionId
  ELSE "default"

\* C31: a successful Writer execution calls the content provider once per
\* generate_content action, in action order, and for no other action; each
\* output is stored in results under the action's sectionId, or under
\* "default" when the payload has none; a plan without generate_content
\* actions makes no call and leaves results as they were.
C31_WriterCallsPerAction ==
  (LastNode = "writer" /\ LastOutcome = "ok") =>
    LET e == trace[Len(trace)]
        actions == state.actions
        gen == e.reply.gen
        before == e.reply.results
        calls == e.calls
        content == {i \in DOMAIN actions : actions[i].type = "generate_content"}
    IN  /\ Len(calls) = Cardinality(content)
        /\ \A j \in DOMAIN calls : calls[j].action \in content
        /\ \A j, k \in DOMAIN calls : j < k => calls[j].action < calls[k].action
        /\ DOMAIN state.results =
             DOMAIN before \cup {SectionKey(actions[i]) : i \in content}
        /\ \A i \in content :
             (\A j \in content : SectionKey(actions[j]) = SectionKey(actions[i])
                                   => j <= i)
               => state.results[SectionKey(actions[i])] = gen[i]
        /\ \A k \in DOMAIN before :
             (\A i \in content : SectionKey(actions[i]) # k)
               => state.results[k] = before[k]
        /\ content = {} => (calls = <<>> /\ state.results = before)

\* a structure action followed by a content action without sectionId: one
\* call, for the second action, stored under "default"
C31_Witness ==
  /\ LastNode = "writer" /\ LastOutcome = "ok"
  /\ Len(state.actions) = 2
  /\ state.actions[1].type = "generate_structure"
  /\ state.actions[2].type = "generate_content"
  /\ "sectionId" \notin DOMAIN state.actions[2].payload
  /\ Len(trace[1].calls) = 1 /\ trace[1].calls[1].action = 2
  /\ trace[1].reply.results = EmptyDict
  /\ state.results = [default |-> "text"]

\* ------------------------------------------------------- claims C32 .. C38

\* C32: the Merge node ends the run and changes messages only: it appends
\* one summary message whose count is the number of entries of results with
\* non-empty content, and leaves intent, strategy, actions, results,
\* iteration, critic_approved and error as they were.
C32_MergeOnlyAppendsSummary ==
  [][(pc = "merge_results" /\ trace' # trace) =>
       LET results == OrEmpty(state.results)
           summary == state'.messages[Len(state'.messages)]
       IN  /\ Len(state'.messages) = Len(state.messages) + 1
           /\ SubSeq(state'.messages, 1, Len(state.messages)) = state.messages
           /\ summary.role = "orchestrator" /\ summary.type = "result"
           /\ summary.n = Cardinality({k \in DOMAIN results : results[k] # ""})
           /\ \A f \in {"intent", "strategy", "actions", "results", "iteration",
                         "critic_approved", "error"} : state'[f] = state[f]
           /\ pc' = "END"]_vars

\* Merge after a Writer execution that stored an empty content: the summary
\* counts no entry
C32_Witness ==
  /\ LastNode = "merge_results" /\ pc = "END"
  /\ \E k \in DOMAIN state.results : state.results[k] = ""
  /\ state.messages[Len(state.messages)].n = 0

\* the fields of OrchestratorState that carry the request
InputFields ==
  {"user_message", "user_id", "session_id", "active_segment",
   "document_panel_open", "document_format", "canvas_context",
   "conversation_history", "enable_critic", "max_iterations"}

\* C33: no node changes the request inputs: user_message, user_id,
\* session_id, active_segment, document_panel_open, document_format,
\* canvas_context, conversation_history, enable_critic and max_iterations
\* keep their initial values through every step of a run.
C33_InputsUnchanged ==
  [][\A f \in InputFields : state'[f] = state[f]]_vars

\* a run with a selected section, over, after Writer, Critic and Merge
C33_Witness ==
  /\ pc = "END"
  /\ state.active_segment # NoneDict /\ state.document_panel_open
  /\ state.enable_critic
  /\ Executions("writer") # {} /\ Executions("critic") # {}
  /\ InputFields \subseteq DOMAIN state

\* C34: a run starts with no action and the Action Planner, executed once,
\* appends at most one: the plan never holds more than one action, and the
\* strategy selected is sequential or cluster, never parallel.
C34_AtMostOneAction ==
  /\ Len(state.actions) <= 1
  /\ state.strategy \in {None, "sequential", "cluster"}
  /\ Cardinality(Executions("generate_actions")) <= 1
  /\ Executions("select_strategy") # {} => state.strategy # None

\* a run with one planned action and strategy cluster, over
C34_Witness ==
  /\ pc = "END"
  /\ Len(state.actions) = 1
  /\ state.strategy = "cluster"
  /\ Executions("generate_actions") # {}

\* the intent tag the Classifier node stored
ClassifiedIntent == Get(OrEmpty(state.intent), "intent", "")

\* C35: the Critic executes only in runs classified write_content; a run
\* classified improve_content plans no action, goes from the Strategy
\* Selector to Merge, and executes neither the Writer nor the Critic, also
\* when its strategy is cluster.
C35_CriticOnlyForWriteContent ==
  /\ Executions("critic") # {} => ClassifiedIntent = "write_content"
  /\ ClassifiedIntent = "improve_content" =>
       /\ Executions("writer") = {} /\ Executions("critic") = {}
       /\ state.actions = <<>>
       /\ \A i \in Executions("select_strategy") : Successor(i) = "merge_results"

\* improve_content with strategy cluster: the run is over without Writer or
\* Critic
C35_Witness ==
  /\ pc = "END"
  /\ ClassifiedIntent = "improve_content"
  /\ state.strategy = "cluster"
  /\ Executions("writer") = {} /\ Executions("critic") = {}

\* the Classifier node stored a write_content intent of the pattern stage and
\* the request enables the critic
PatternWriteWithCritic ==
  /\ ClassifiedIntent = "write_content"
  /\ ~Get(OrEmpty(state.intent), "usedLLM", TRUE)
  /\ Get(OrEmpty(state.intent), "confidence", 0) = 95
  /\ state.enable_critic

\* C36: for a write_content intent of the pattern stage with enable_critic
\* set, the strategy selected is cluster, the Critic executes, and Merge is
\* not reached before the Critic has executed, whether the Writer succeeded
\* or failed.
C36_PatternWriteIsCritiqued ==
  /\ [](PatternWriteWithCritic =>
          /\ Executions("select_strategy") # {} => state.strategy = "cluster"
          /\ pc \in {"merge_results", "END"} => Executions("critic") # {}
          /\ \A i \in Executions("merge_results") :
               \E j \in Executions("critic") : j < i)
  /\ (PatternWriteWithCritic ~> Executions("critic") # {})

\* the Writer failed, the Critic executed all the same, and the run is over
C36_Witness ==
  /\ PatternWriteWithCritic
  /\ pc = "END"
  /\ \E i \in Executions("writer"), j \in Executions("critic") :
       i < j /\ trace[i].outcome = "raise"

\* the strategy is cluster and the first Writer execution of the run failed
FirstWriterFailed ==
  /\ state.strategy = "cluster"
  /\ \E i \in Executions("writer") :
       /\ \A j \in Executions("writer") : i <= j
       /\ trace[i].outcome = "raise"

\* C37: under strategy cluster, when the first Writer execution fails, the
\* Critic executes, finds results empty and approves without a provider
\* call, and the run ends at Merge with error set, results empty,
\* iteration 0 and critic_approved set; the Writer is not executed again.
C37_FailedFirstWriterEndsApproved ==
  /\ [](FirstWriterFailed =>
          /\ state.error # None /\ state.error # ""
          /\ state.results = EmptyDict
          /\ state.iteration = 0
          /\ WriterRuns = 1
          /\ \A j \in Executions("critic") :
               /\ trace[j].outcome = "empty"
               /\ state.critic_approved
               /\ Successor(j) = "merge_results"
          /\ \A k \in Executions("merge_results") : Executions("critic") # {})
  /\ (FirstWriterFailed ~>
        (/\ pc = "END" /\ LastNode = "merge_results"
         /\ CriticRuns = 1
         /\ state.critic_approved
         /\ state.error # None /\ state.results = EmptyDict
         /\ state.iteration = 0))

\* such a run, over, in a request that allowed more than one iteration
C37_Witness ==
  /\ FirstWriterFailed
  /\ pc = "END" /\ LastNode = "merge_results"
  /\ state.max_iterations > 1
  /\ CriticRuns = 1 /\ state.critic_approved
  /\ state.error = "writer error" /\ state.results = EmptyDict

ErrorSet == state.error # None /\ state.error # ""
Failed(node) == \E i \in Executions(node) : trace[i].outcome = "raise"

\* C38: once a node has failed, error is set in every later state; when the
\* run is over, error is set exactly if some node failed during the run; a
\* failure of the Classifier node keeps the Writer and the Critic from
\* executing.
C38_ErrorSetIffSomeNodeFailed ==
  /\ (Failed("analyze_intent") \/ Failed("writer")) => ErrorSet
  /\ pc = "END" => (ErrorSet <=> \E i \in DOMAIN trace : trace[i].outcome = "raise")
  /\ Failed("analyze_intent") =>
       Executions("writer") = {} /\ Executions("critic") = {}

\* The same with the failures that set error named: error, once set, stays
\* set through every later step, a successful Writer execution included;
\* when the run is over it is set exactly if the Classifier node or a Writer
\* execution failed, a failure of the Critic leaving it as it was.
C38_ErrorStickyIffClassifierOrWriterFailed ==
  /\ [][ErrorSet => ErrorSet']_vars
  /\ []((Failed("analyze_intent") \/ Failed("writer")) => ErrorSet)
  /\ [](pc = "END" => (ErrorSet <=> (Failed("analyze_intent") \/ Failed("writer"))))
  /\ [][(pc = "critic" /\ trace' # trace) => state'.error = state.error]_vars
  /\ [](Failed("analyze_intent") =>
          Executions("writer") = {} /\ Executions("critic") = {})

\* a Writer execution failed, a later one succeeded, and error is still set
C38_Witness ==
  /\ ErrorSet
  /\ \E i, j \in Executions("writer") :
       i < j /\ trace[i].outcome = "raise" /\ trace[j].outcome = "ok"
  /\ LastNode = "writer" /\ LastOutcome = "ok"
====
